---------------------------- MODULE Spec2Model ----------------------------
(***************************************************************************)
(* A model of the Lyps interpreter core: the scanner buffer and scanner    *)
(* (Parser.py, LypsParser.py), the reader (LypsParser.py), the environment *)
(* chain (SymbolTable.py), the evaluator and the primitive library         *)
(* (LypsInterpreter.py) and the value classes (LypsAST.py).                *)
(*                                                                         *)
(* Python values are records tagged by the field k:                        *)
(*   int, frac (fractions.Fraction), float, str, sym (LSymbol), None,      *)
(*   llist (an LList as the reader builds it, elements inline),            *)
(*   list, fn, macro (an LList, LFunction or LMacro object of the          *)
(*   evaluator, by identity: [k, id] with the object in heap[id]),         *)
(*   pylist (a Python list: the body of an LFunction or LMacro),           *)
(*   prim (an LPrimitive: its name and the constructPrimitives call that   *)
(*   built it).                                                            *)
(* A Python exception is the field exc of an operator's result.            *)
(***************************************************************************)
EXTENDS Integers, Sequences, FiniteSets, TLC

VARIABLES
    src,          \* the text handed to LypsParser.parse (a sequence of characters)
    pres,         \* what parse did with src: [exc, msg, val]
    ppc,          \* "start" before parse ran on src, "done" after
    frames,       \* the SymbolTable objects: [parent, locals]; parent 0 is None
    GLOBAL_SCOPE, \* SymbolTable.GLOBAL_SCOPE: a frame number
    interps,      \* self._env of each LypsInterpreter: a frame number, 0 before
                  \* the interpreter is constructed
    heap,         \* the LList, LFunction and LMacro objects, by identity
    LNULL,        \* the module global LNULL of LypsInterpreter.py: a list value
    INSIDE_BACKQUOTE, \* one flag per call of constructPrimitives (its closure)
    last,         \* the last operation and what it returned or raised
    nOps,         \* the number of operations done (bounded by MaxOps)
    workload,     \* the family of programs this run evaluates
    cur,          \* the environment a primitive is called in (a frame number)
    operands      \* the evaluated arguments handed to an arithmetic primitive

vars == << src, pres, ppc, frames, GLOBAL_SCOPE, interps, heap, LNULL,
           INSIDE_BACKQUOTE, last, nOps, workload, cur, operands >>

-----------------------------------------------------------------------------
(* Bounds of the model.                                                    *)

\* longest source text enumerated for the reader
MaxSrcLen == 3
\* operations (eval, reboot, construction) in one behaviour of the interpreter
MaxOps == 3
\* largest absolute value of the integers handed to an arithmetic primitive
MaxNum == 5
\* scopes nested inside the global frame when primitives are called directly
MaxDepth == 2

-----------------------------------------------------------------------------
(* Values.                                                                 *)

IntV(i) == [k |-> "int", v |-> i]
FracV(n, d) == [k |-> "frac", n |-> n, d |-> d]
\* a float is the ratio n/d when c is "", and the named constant c otherwise
FloatV(n, d) == [k |-> "float", n |-> n, d |-> d, c |-> ""]
FloatC(c) == [k |-> "float", n |-> 0, d |-> 0, c |-> c]
StrV(s) == [k |-> "str", v |-> s]
LSymbol(s) == [k |-> "sym", v |-> s]
PyNone == [k |-> "None"]
LListT(elts) == [k |-> "llist", elts |-> elts]

Abs(i) == IF i < 0 THEN 0 - i ELSE i

RECURSIVE Gcd(_, _)
Gcd(a, b) == IF b = 0 THEN a ELSE Gcd(b, a % b)

RECURSIVE Pow10(_)
Pow10(n) == IF n <= 0 THEN 1 ELSE 10 * Pow10(n - 1)

\* fractions.Fraction(n, d) for d # 0: lowest terms, positive denominator
Fraction(n, d) ==
    LET g == Gcd(Abs(n), Abs(d))
        s == IF d < 0 THEN 0 - 1 ELSE 1
    IN  FracV(s * (n \div g), s * (d \div g))

\* a float whose value is the ratio n/d (d # 0); rounding to a double is not modelled
Float(n, d) ==
    LET g == Gcd(Abs(n), Abs(d))
        s == IF d < 0 THEN 0 - 1 ELSE 1
    IN  FloatV(s * (n \div g), s * (d \div g))

RECURSIVE Cat(_)
Cat(cs) == IF cs = << >> THEN "" ELSE Head(cs) \o Cat(Tail(cs))

-----------------------------------------------------------------------------
(* Character classes of LypsScanner.                                       *)

SIGN == {"+", "-"}
DIGIT == {"0", "1", "2", "3", "4", "5", "6", "7", "8", "9"}
SIGN_OR_DIGIT == SIGN \cup DIGIT
LowerSeq == << "a", "b", "c", "d", "e", "f", "g", "h", "i", "j", "k", "l", "m",
               "n", "o", "p", "q", "r", "s", "t", "u", "v", "w", "x", "y", "z" >>
UpperSeq == << "A", "B", "C", "D", "E", "F", "G", "H", "I", "J", "K", "L", "M",
               "N", "O", "P", "Q", "R", "S", "T", "U", "V", "W", "X", "Y", "Z" >>
ALPHA_LOWER == { LowerSeq[i] : i \in 1..Len(LowerSeq) }
ALPHA_UPPER == { UpperSeq[i] : i \in 1..Len(UpperSeq) }
ALPHA == ALPHA_LOWER \cup ALPHA_UPPER
SYMBOL_OTHER == {"~", "!", "$", "%", "^", "&", "*", "_", "=", "\\", "/", "?", "<", ">"}
SYMBOL_FIRST == ALPHA \cup SIGN \cup SYMBOL_OTHER
SYMBOL_REST == ALPHA \cup SIGN \cup SYMBOL_OTHER \cup DIGIT \cup {":"}
WHITESPACE == {" ", "\t", "\n", "\r"}
\* the backquote character, which a TLA+ string cannot hold, written as one
\* element of a source text
BackQuoteChar == "<bq>"

\* str.upper() on one character
UpperChar(c) ==
    IF c \in ALPHA_LOWER
    THEN UpperSeq[CHOOSE i \in 1..Len(LowerSeq) : LowerSeq[i] = c]
    ELSE c

Upper(cs) == [i \in 1..Len(cs) |-> UpperChar(cs[i])]

DigitVal(c) == CHOOSE n \in 0..9 : ToString(n) = c

EOF_TOK == 0
SYMBOL_TOK == 101
STRING_TOK == 102
INTEGER_TOK == 111
FLOAT_TOK == 112
FRAC_TOK == 121
OPEN_BRACKET_TOK == 201
CLOSE_BRACKET_TOK == 202
OPEN_PAREN_TOK == 211
CLOSE_PAREN_TOK == 212
SEMI_COLON_TOK == 500
POUND_SIGN_TOK == 501
PIPE_TOK == 502
COLON_TOK == 503
SINGLE_QUOTE_TOK == 504
COMMA_TOK == 505
COMMA_AT_TOK == 506
BACK_QUOTE_TOK == 507

-----------------------------------------------------------------------------
(* ScannerBuffer and Scanner (Parser.py).  A scanner is the record          *)
(* [source, point, mark, lineNum, tok]; point and mark are 0-based as in    *)
(* the code.  An operator that can raise returns [sc, exc, msg, tok].       *)

Ok(sc) == [sc |-> sc, exc |-> "none", msg |-> "", tok |-> sc.tok]
Raise(sc, e, m) == [sc |-> sc, exc |-> e, msg |-> m, tok |-> sc.tok]
Token(sc, t) == [sc |-> sc, exc |-> "none", msg |-> "", tok |-> t]

\* self._source[ self._point ] raises IndexError here; the buffer's handlers
\* catch KeyError only, so the IndexError leaves peek, consume, consumePast
\* and consumeUpTo
AtEnd(sc) == sc.point >= Len(sc.source)
CharAt(sc) == sc.source[sc.point + 1]

peek(sc) == IF AtEnd(sc) THEN Raise(sc, "IndexError", "") ELSE Ok(sc)

consume(sc) ==
    IF AtEnd(sc)
    THEN Raise(sc, "IndexError", "")
    ELSE Ok([sc EXCEPT !.point = @ + 1,
                       !.lineNum = IF CharAt(sc) = "\n" THEN @ + 1 ELSE @])

RECURSIVE consumePast(_, _)
consumePast(sc, aCharSet) ==
    IF AtEnd(sc) THEN Raise(sc, "IndexError", "")
    ELSE IF CharAt(sc) \in aCharSet THEN consumePast(consume(sc).sc, aCharSet)
    ELSE Ok(sc)

RECURSIVE consumeUpTo(_, _)
consumeUpTo(sc, aCharSet) ==
    IF AtEnd(sc) THEN Raise(sc, "IndexError", "")
    ELSE IF CharAt(sc) \notin aCharSet THEN consumeUpTo(consume(sc).sc, aCharSet)
    ELSE Ok(sc)

markStartOfLexeme(sc) == [sc EXCEPT !.mark = sc.point]

getLexeme(sc) == SubSeq(sc.source, sc.mark + 1, sc.point)

\* Scanner.saveState snapshots tok and the buffer's source, point, mark, lineNum
saveState(sc) == sc
restoreState(sc, SAVE) == SAVE

-----------------------------------------------------------------------------
(* LypsScanner (LypsParser.py).                                            *)

\* "return tok" after a buffer call: r is what the call gave
Returning(r, tok) == IF r.exc # "none" THEN r ELSE Token(r.sc, tok)

_scanSymbol(sc) ==
    IF AtEnd(sc) THEN Raise(markStartOfLexeme(sc), "IndexError", "")
    ELSE IF CharAt(sc) \notin SYMBOL_FIRST
         THEN Raise(markStartOfLexeme(sc), "ParseError", "Invalid symbol character")
    ELSE Returning(consumePast(consume(markStartOfLexeme(sc)).sc, SYMBOL_REST),
                   SYMBOL_TOK)

\* the closing quote: r1 is what consumeUpTo gave
_scanStringLiteralEnd(r1) ==
    IF r1.exc # "none" THEN r1 ELSE Token(consume(r1.sc).sc, STRING_TOK)

_scanStringLiteral(sc) ==
    IF AtEnd(sc) THEN Raise(sc, "IndexError", "")
    ELSE IF CharAt(sc) # "\"" THEN Raise(sc, "ParseError", "'\"' expected.")
    ELSE _scanStringLiteralEnd(
             consumeUpTo(consume(markStartOfLexeme(sc)).sc, {"\""}))

\* the exponent part shared by the two float cases; SAVE is the state to
\* restore when the lexeme is no number.  s2 is at the first digit expected
_scanExponentDigits(s2, SAVE) ==
    IF AtEnd(s2) THEN Raise(s2, "IndexError", "")
    ELSE IF CharAt(s2) \notin DIGIT THEN _scanSymbol(restoreState(s2, SAVE))
    ELSE Returning(consumePast(s2, DIGIT), FLOAT_TOK)

\* s1 is past the e or E
_scanExponentSign(s1, SAVE) ==
    IF AtEnd(s1) THEN Raise(s1, "IndexError", "")
    ELSE IF CharAt(s1) \notin SIGN /\ CharAt(s1) \notin DIGIT
         THEN _scanSymbol(restoreState(s1, SAVE))
    ELSE _scanExponentDigits(IF CharAt(s1) \in SIGN THEN consume(s1).sc ELSE s1,
                             SAVE)

\* the e or E is the next character
_scanExponent(sc, SAVE) == _scanExponentSign(consume(sc).sc, SAVE)

\* the denominator of a fraction: s3 is past the /
_scanDenominator(s3, SAVE) ==
    IF AtEnd(s3) THEN Raise(s3, "IndexError", "")
    ELSE IF CharAt(s3) \notin DIGIT THEN _scanSymbol(restoreState(s3, SAVE))
    ELSE Returning(consumePast(s3, DIGIT), FRAC_TOK)

\* after the decimals of a float: r4 is what consumePast gave
_scanDecimalsEnd(r4, SAVE) ==
    IF r4.exc # "none" THEN r4
    ELSE IF CharAt(r4.sc) \notin {"e", "E"} THEN Token(r4.sc, FLOAT_TOK)
    ELSE _scanExponent(r4.sc, SAVE)

\* the decimals of a float: s3 is past the point
_scanDecimals(s3, SAVE) ==
    IF AtEnd(s3) THEN Raise(s3, "IndexError", "")
    ELSE IF CharAt(s3) \notin DIGIT THEN _scanSymbol(restoreState(s3, SAVE))
    ELSE _scanDecimalsEnd(consumePast(s3, DIGIT), SAVE)

\* after the leading digits: r2 is what consumePast gave
_scanDigitsEnd(r2, SAVE) ==
    IF r2.exc # "none" THEN r2
    ELSE IF CharAt(r2.sc) = "/" THEN _scanDenominator(consume(r2.sc).sc, SAVE)
    ELSE IF CharAt(r2.sc) \in {"e", "E"} THEN _scanExponent(r2.sc, SAVE)
    ELSE IF CharAt(r2.sc) = "." THEN _scanDecimals(consume(r2.sc).sc, SAVE)
    ELSE Token(r2.sc, INTEGER_TOK)

\* s1 is past the first character nextChar, a sign or a digit
_scanDigits(nextChar, s1, SAVE) ==
    IF nextChar \in SIGN /\ AtEnd(s1) THEN Raise(s1, "IndexError", "")
    ELSE IF nextChar \in SIGN /\ CharAt(s1) \notin DIGIT
         THEN _scanSymbol(restoreState(s1, SAVE))
    ELSE _scanDigitsEnd(consumePast(s1, DIGIT), SAVE)

_scanNumOrSymbol(sc) ==
    _scanDigits(CharAt(sc), consume(markStartOfLexeme(sc)).sc,
                saveState(markStartOfLexeme(sc)))

RECURSIVE _skipWhitespaceAndComments(_)

\* the rest of a comment line: r3 is what consumeUpTo gave
_skipCommentEnd(r3) ==
    IF r3.exc # "none" THEN r3 ELSE _skipWhitespaceAndComments(r3.sc)

\* s2 is past a semicolon; SAVE is the state before it
_skipComment(s2, SAVE) ==
    IF AtEnd(s2) THEN Raise(s2, "IndexError", "")
    ELSE IF CharAt(s2) = ";" THEN _skipCommentEnd(consumeUpTo(s2, {"\n", "\r"}))
    ELSE Ok(restoreState(s2, SAVE))

\* r1 is what consumePast( WHITESPACE ) gave
_skipWhitespace(r1) ==
    IF r1.exc # "none" THEN r1
    ELSE IF CharAt(r1.sc) = ";"
         THEN _skipComment(consume(r1.sc).sc, saveState(r1.sc))
    ELSE _skipWhitespaceAndComments(r1.sc)

_skipWhitespaceAndComments(sc) ==
    IF AtEnd(sc) THEN Raise(sc, "IndexError", "")
    ELSE IF CharAt(sc) \notin ({";"} \cup WHITESPACE) THEN Ok(sc)
    ELSE _skipWhitespace(consumePast(sc, WHITESPACE))

\* mark, consume one character, return tok
_oneCharToken(sc, t) == Token(consume(markStartOfLexeme(sc)).sc, t)

\* peek the next character (which raises at the end of the source), return tok
_peekThenToken(s1, t) ==
    IF AtEnd(s1) THEN Raise(s1, "IndexError", "") ELSE Token(s1, t)

\* mark, consume one character, peek the next one, return tok
_oneCharTokenPeek(sc, t) == _peekThenToken(consume(markStartOfLexeme(sc)).sc, t)

\* s1 is past the comma
_scanCommaAt(s1) ==
    IF AtEnd(s1) THEN Raise(s1, "IndexError", "")
    ELSE IF CharAt(s1) = "@" THEN _peekThenToken(consume(s1).sc, COMMA_AT_TOK)
    ELSE Token(s1, COMMA_TOK)

_scanComma(sc) == _scanCommaAt(consume(markStartOfLexeme(sc)).sc)

\* the token that starts at the next character of s
_scanLexeme(s) ==
    IF AtEnd(s) THEN Raise(s, "IndexError", "")
    ELSE LET nextChar == CharAt(s) IN
         CASE nextChar = "[" -> _oneCharToken(s, OPEN_BRACKET_TOK)
           [] nextChar = "]" -> _oneCharToken(s, CLOSE_BRACKET_TOK)
           [] nextChar = "(" -> _oneCharToken(s, OPEN_PAREN_TOK)
           [] nextChar = ")" -> _oneCharToken(s, CLOSE_PAREN_TOK)
           [] nextChar = ";" -> _oneCharToken(s, SEMI_COLON_TOK)
           [] nextChar = "#" -> _oneCharToken(s, POUND_SIGN_TOK)
           [] nextChar = "|" -> _oneCharToken(s, PIPE_TOK)
           [] nextChar = ":" -> _oneCharTokenPeek(s, COLON_TOK)
           [] nextChar = "'" -> _oneCharTokenPeek(s, SINGLE_QUOTE_TOK)
           [] nextChar = BackQuoteChar -> _oneCharTokenPeek(s, BACK_QUOTE_TOK)
           [] nextChar = "," -> _scanComma(s)
           [] nextChar = "\"" -> _scanStringLiteral(s)
           [] nextChar \in SIGN_OR_DIGIT -> _scanNumOrSymbol(s)
           [] nextChar \in SYMBOL_FIRST -> _scanSymbol(s)
           [] OTHER -> Raise(s, "ParseError", "Unknown Token")

\* r0 is what _skipWhitespaceAndComments gave
_scanAfterSkip(r0) == IF r0.exc # "none" THEN r0 ELSE _scanLexeme(r0.sc)

\* the try block of _scanNextToken
_scanNextTokenBody(sc) == _scanAfterSkip(_skipWhitespaceAndComments(sc))

\* the except clauses of _scanNextToken: a ParseError is re-raised; every
\* other exception (the IndexError of the buffer at the end of the source)
\* makes the token EOF_TOK
_scanNextTokenExcept(r) ==
    IF r.exc = "ParseError" THEN r
    ELSE IF r.exc # "none" THEN Token(r.sc, EOF_TOK)
    ELSE r

_scanNextToken(sc) == _scanNextTokenExcept(_scanNextTokenBody(sc))

\* "self._tok = ..." of Scanner.consume
_setTok(r) == IF r.exc # "none" THEN r ELSE Ok([r.sc EXCEPT !.tok = r.tok])

\* Scanner.consume: self._tok = self._scanNextToken( )
Scanner_consume(sc) == _setTok(_scanNextToken(sc))

\* Scanner.reset
Scanner_reset(sourceString) ==
    Scanner_consume([source |-> sourceString, point |-> 0, mark |-> 0,
                     lineNum |-> 1, tok |-> 0 - 1])

peekToken(sc) == sc.tok

-----------------------------------------------------------------------------
(* LypsParser (LypsParser.py).  A reader operator returns                   *)
(* [sc, exc, msg, val].  A ParseError's position fields are not modelled.   *)

PVal(sc, val) == [sc |-> sc, exc |-> "none", msg |-> "", val |-> val]
PRaise(sc, e, m) == [sc |-> sc, exc |-> e, msg |-> m, val |-> PyNone]

RECURSIVE DigitsVal(_)
DigitsVal(cs) ==
    IF cs = << >> THEN 0
    ELSE 10 * DigitsVal(SubSeq(cs, 1, Len(cs) - 1)) + DigitVal(cs[Len(cs)])

\* int(lex) for a lexeme [sign] digit+
PyInt(lex) ==
    IF lex[1] = "-" THEN 0 - DigitsVal(Tail(lex))
    ELSE IF lex[1] = "+" THEN DigitsVal(Tail(lex))
    ELSE DigitsVal(lex)

\* the index of the first element of cs that is in aCharSet, or Len(cs) + 1
RECURSIVE IndexOf(_, _, _)
IndexOf(cs, aCharSet, i) ==
    IF i > Len(cs) THEN i
    ELSE IF cs[i] \in aCharSet THEN i
    ELSE IndexOf(cs, aCharSet, i + 1)

\* float(lex) for a lexeme [sign] digit+ [. digit+] [e [sign] digit+]
PyFloat(lex) ==
    LET ePos == IndexOf(lex, {"e", "E"}, 1)
        mant == SubSeq(lex, 1, ePos - 1)
        expo == IF ePos > Len(lex) THEN 0 ELSE PyInt(SubSeq(lex, ePos + 1, Len(lex)))
        dot == IndexOf(mant, {"."}, 1)
        whole == PyInt(SubSeq(mant, 1, dot - 1))
        fracDigits == SubSeq(mant, dot + 1, Len(mant))
        neg == mant[1] = "-"
        scale == Pow10(Len(fracDigits))
        num == Abs(whole) * scale + DigitsVal(fracDigits)
        signed == IF neg THEN 0 - num ELSE num
    IN  IF expo >= 0 THEN Float(signed * Pow10(expo), scale)
        ELSE Float(signed, scale * Pow10(0 - expo))

\* fractions.Fraction( int(lex_num), int(lex_denom) ) of lex.split('/')
PyFrac(sc, lex) ==
    LET slash == IndexOf(lex, {"/"}, 1)
        lex_num == PyInt(SubSeq(lex, 1, slash - 1))
        lex_denom == PyInt(SubSeq(lex, slash + 1, Len(lex)))
    IN  IF lex_denom = 0 THEN PRaise(sc, "ZeroDivisionError", "Fraction(n, 0)")
        ELSE PVal(sc, Fraction(lex_num, lex_denom))

\* self._scanner.consume( ) after an object is read: c is what it gave and
\* val the value the parser function returns
_consumed(c, val) ==
    IF c.exc # "none" THEN PRaise(c.sc, c.exc, c.msg) ELSE PVal(c.sc, val)

\* the value of the look-ahead token, then self._scanner.consume( )
_parseAtom(sc, r) ==
    IF r.exc # "none" THEN r ELSE _consumed(Scanner_consume(sc), r.val)

RECURSIVE _parseObject(_)
RECURSIVE _parseListEntries(_, _)

\* c is what consuming the ( gave
_parseListOpen(c) ==
    IF c.exc # "none" THEN PRaise(c.sc, c.exc, c.msg)
    ELSE _parseListEntries(c.sc, << >>)

_parseList(sc) ==
    IF peekToken(sc) # OPEN_PAREN_TOK THEN PRaise(sc, "ParseError", "( expected.")
    ELSE _parseListOpen(Scanner_consume(sc))

\* theList.append( ... ): r is what _parseObject gave
_parseListEntry(r, theList) ==
    IF r.exc # "none" THEN r
    ELSE _parseListEntries(r.sc, Append(theList, r.val))

_parseListEntries(sc, theList) ==
    IF peekToken(sc) \notin {CLOSE_PAREN_TOK, EOF_TOK}
    THEN _parseListEntry(_parseObject(sc), theList)
    ELSE IF peekToken(sc) # CLOSE_PAREN_TOK
    THEN PRaise(sc, "ParseError", ") expected.")
    ELSE _consumed(Scanner_consume(sc), LListT(theList))

\* r is what _parseObject gave for the quoted object
_parseQuotedObject(r, name) ==
    IF r.exc # "none" THEN r
    ELSE PVal(r.sc, LListT(<< LSymbol(name), r.val >>))

\* c is what consuming the quote token gave
_parseQuoteToken(c, name) ==
    IF c.exc # "none" THEN PRaise(c.sc, c.exc, c.msg)
    ELSE _parseQuotedObject(_parseObject(c.sc), name)

\* a reader macro: consume the token, read the next object, wrap both
_parseQuoted(sc, name) == _parseQuoteToken(Scanner_consume(sc), name)

\* the tokens _parseObject reads as an atom, and the reader macros
AtomTokens ==
    {INTEGER_TOK, FLOAT_TOK, FRAC_TOK, STRING_TOK, SYMBOL_TOK, OPEN_BRACKET_TOK,
     CLOSE_BRACKET_TOK, POUND_SIGN_TOK, PIPE_TOK, COLON_TOK}

QuoteTokens == {SINGLE_QUOTE_TOK, BACK_QUOTE_TOK, COMMA_TOK, COMMA_AT_TOK}

\* lexVal of an atom
_atomValue(sc, nextToken, lex) ==
    CASE nextToken = INTEGER_TOK -> PVal(sc, IntV(PyInt(lex)))
      [] nextToken = FLOAT_TOK -> PVal(sc, PyFloat(lex))
      [] nextToken = FRAC_TOK -> PyFrac(sc, lex)
      [] nextToken = STRING_TOK -> PVal(sc, StrV(Cat(SubSeq(lex, 2, Len(lex) - 1))))
      [] nextToken = SYMBOL_TOK -> PVal(sc, LSymbol(Cat(Upper(lex))))
      [] OTHER -> PVal(sc, StrV(Cat(lex)))

\* the symbol a reader macro puts in front of the quoted object
_quoteName(nextToken) ==
    CASE nextToken = SINGLE_QUOTE_TOK -> "QUOTE"
      [] nextToken = BACK_QUOTE_TOK -> "BACKQUOTE"
      [] nextToken = COMMA_TOK -> "COMMA"
      [] OTHER -> "COMMA-AT"

_parseObject(sc) ==
    LET nextToken == peekToken(sc)
        lex == getLexeme(sc)
    IN  CASE nextToken \in AtomTokens ->
                _parseAtom(sc, _atomValue(sc, nextToken, lex))
          [] nextToken = OPEN_PAREN_TOK -> _parseList(sc)
          [] nextToken \in QuoteTokens -> _parseQuoted(sc, _quoteName(nextToken))
          [] nextToken = EOF_TOK -> PVal(sc, PyNone)
          [] OTHER -> PRaise(sc, "ParseError", "Object expected.")

\* the last self._scanner.consume( ) of parse and its return
_parseReturn(c2, val) ==
    IF c2.exc # "none" THEN [exc |-> c2.exc, msg |-> c2.msg, val |-> PyNone]
    ELSE [exc |-> "none", msg |-> "", val |-> val]

\* r is what _parseObject gave for the whole text
_parseEnd(r) ==
    IF r.exc # "none" THEN [exc |-> r.exc, msg |-> r.msg, val |-> PyNone]
    ELSE IF peekToken(r.sc) # EOF_TOK
    THEN [exc |-> "ParseError", msg |-> "EOF Expected.", val |-> PyNone]
    ELSE _parseReturn(Scanner_consume(r.sc), r.val)

\* c is what self._scanner.reset( inputString ) gave
_parseStart(c) ==
    IF c.exc # "none" THEN [exc |-> c.exc, msg |-> c.msg, val |-> PyNone]
    ELSE _parseEnd(_parseObject(c.sc))

\* LypsParser.parse: [exc, msg, val]
parse(inputString) == _parseStart(Scanner_reset(inputString))

-----------------------------------------------------------------------------
(* Exceptions of the evaluator (LypsInterpreter.py).                       *)

NoExc == [type |-> "none", name |-> "", msg |-> ""]
LypsRuntimeError(msg) == [type |-> "LypsRuntimeError", name |-> "", msg |-> msg]
\* fnName is lypsCallable._name; the usage is the registry's usage of that name
LypsRuntimeFuncError(fnName, errorMsg) ==
    [type |-> "LypsRuntimeFuncError", name |-> fnName, msg |-> errorMsg]
PyExc(type) == [type |-> type, name |-> "", msg |-> ""]
\* a path of the code that this model does not follow
Unmodelled(what) == [type |-> "Unmodelled", name |-> "", msg |-> what]

L_NUMBER == {"int", "float", "frac"}
L_ATOM == {"int", "float", "frac", "str"}

-----------------------------------------------------------------------------
(* The primitive registry: one row per @LDefPrimitive of                   *)
(* constructPrimitives, name upper-cased and usage built as                *)
(* LDefPrimitive.__init__ builds them.                                     *)

PrimitiveRegistry == <<
    [name |-> "DEF!", usage |-> "(def! '<symbol> <object>)", stdEvalOrd |-> TRUE],
    [name |-> "DEF!!", usage |-> "(def!! '<symbol> <object>)", stdEvalOrd |-> TRUE],
    [name |-> "DEFUN!", usage |-> "(defun! <symbol> (<param1> <param2> ...) <expr1> <expr2> ...)", stdEvalOrd |-> FALSE],
    [name |-> "DEFUN!!", usage |-> "(defun!! <symbol> (<param1> <param2> ...) <expr1> <expr2> ...)", stdEvalOrd |-> FALSE],
    [name |-> "DEFMACRO!!", usage |-> "(defmacro!! <symbol> (<param1> <param2> ...) <expr1> <expr2> ...)", stdEvalOrd |-> FALSE],
    [name |-> "SET!", usage |-> "(set! '<symbol> <object>)", stdEvalOrd |-> TRUE],
    [name |-> "UNDEF!", usage |-> "(undef! '<symbol>)", stdEvalOrd |-> TRUE],
    [name |-> "SYMTAB!", usage |-> "", stdEvalOrd |-> TRUE],
    [name |-> "LAM", usage |-> "(lam (<param1> <param2> ... ) <expr1> <expr2> ...)", stdEvalOrd |-> FALSE],
    [name |-> "BLOCK", usage |-> "(block <expr1> <expr2> ...))", stdEvalOrd |-> FALSE],
    [name |-> "IF", usage |-> "(if <cond> <conseq> [<alt>])", stdEvalOrd |-> FALSE],
    [name |-> "COND", usage |-> "(cond (<cond1> <expr1>) (<cond2> <expr2>))", stdEvalOrd |-> FALSE],
    [name |-> "CASE", usage |-> "(case <expr> (<val1> <expr1>) (<val2> <expr2>) ...))", stdEvalOrd |-> FALSE],
    [name |-> "QUOTE", usage |-> "(quote <expr>)", stdEvalOrd |-> FALSE],
    [name |-> "BACKQUOTE", usage |-> "(backquote <expr>)", stdEvalOrd |-> FALSE],
    [name |-> "COMMA", usage |-> "(comma <expr>)", stdEvalOrd |-> FALSE],
    [name |-> "COMMA-AT", usage |-> "(comma-at <expr>)", stdEvalOrd |-> FALSE],
    [name |-> "WHILE", usage |-> "(while <conditionExpr> <bodyExpr>)", stdEvalOrd |-> FALSE],
    [name |-> "EVAL", usage |-> "(eval <expr>)", stdEvalOrd |-> TRUE],
    [name |-> "PARSE", usage |-> "(parse <lypsExpressionString>)", stdEvalOrd |-> TRUE],
    [name |-> "PPRINT", usage |-> "(pprint <lypsExpr>)", stdEvalOrd |-> TRUE],
    [name |-> "LIST", usage |-> "(list <expr1> <expr2> ...)", stdEvalOrd |-> TRUE],
    [name |-> "FIRST", usage |-> "(first <list>)", stdEvalOrd |-> TRUE],
    [name |-> "REST", usage |-> "(rest <list>)", stdEvalOrd |-> TRUE],
    [name |-> "CONS", usage |-> "(cons '<obj> '<list>)", stdEvalOrd |-> TRUE],
    [name |-> "PUSH!", usage |-> "(push! '<list> '<value>)", stdEvalOrd |-> TRUE],
    [name |-> "POP!", usage |-> "(pop! '<list>)", stdEvalOrd |-> TRUE],
    [name |-> "AT", usage |-> "(at '<listORMap> '<keyOrIndex>)", stdEvalOrd |-> TRUE],
    [name |-> "ATSET!", usage |-> "(atSet! <listOrMap> <keyOrIndex> <value>)", stdEvalOrd |-> TRUE],
    [name |-> "JOIN", usage |-> "(join '<list1> '<list2>)", stdEvalOrd |-> TRUE],
    [name |-> "HASVALUE?", usage |-> "(hasValue? '<listOrMap> '<value>)", stdEvalOrd |-> TRUE],
    [name |-> "MAP", usage |-> "(map (<key1> <val1>) (<key2> <val>2) ...)", stdEvalOrd |-> FALSE],
    [name |-> "UPDATE!", usage |-> "(update! <map1> <map2>)", stdEvalOrd |-> TRUE],
    [name |-> "HASKEY?", usage |-> "(hasKey? <map> <key>)", stdEvalOrd |-> TRUE],
    [name |-> "+", usage |-> "(+ <expr1> <expr2> ...)", stdEvalOrd |-> TRUE],
    [name |-> "-", usage |-> "(- <expr1> <expr2> ...)", stdEvalOrd |-> TRUE],
    [name |-> "*", usage |-> "(* <expr1> <expr2> ...)", stdEvalOrd |-> TRUE],
    [name |-> "/", usage |-> "(/ <expr1> <expr2> ...)", stdEvalOrd |-> TRUE],
    [name |-> "//", usage |-> "(// <expr1> <expr>)", stdEvalOrd |-> TRUE],
    [name |-> "MOD", usage |-> "(mod <expr1> <expr>)", stdEvalOrd |-> TRUE],
    [name |-> "TRUNC", usage |-> "(trunc <expr>)", stdEvalOrd |-> TRUE],
    [name |-> "ABS", usage |-> "(abs <expr>)", stdEvalOrd |-> TRUE],
    [name |-> "LOG", usage |-> "(log <expr> [ <base> ])", stdEvalOrd |-> TRUE],
    [name |-> "POW", usage |-> "(pow <base> <power>)", stdEvalOrd |-> TRUE],
    [name |-> "SIN", usage |-> "(sin <radians>)", stdEvalOrd |-> TRUE],
    [name |-> "COS", usage |-> "(cos <radians>)", stdEvalOrd |-> TRUE],
    [name |-> "TAN", usage |-> "(tan <radians>)", stdEvalOrd |-> TRUE],
    [name |-> "EXP", usage |-> "(exp <number>)", stdEvalOrd |-> TRUE],
    [name |-> "MIN", usage |-> "(min <val1> <val2> ...)", stdEvalOrd |-> TRUE],
    [name |-> "MAX", usage |-> "(max <val1> <val2> ...)", stdEvalOrd |-> TRUE],
    [name |-> "ISNULL?", usage |-> "(isNull? <expr>)", stdEvalOrd |-> TRUE],
    [name |-> "ISNUMBER?", usage |-> "(isNumber? <expr>)", stdEvalOrd |-> TRUE],
    [name |-> "ISSYMBOL?", usage |-> "(isSymbol? <expr>)", stdEvalOrd |-> TRUE],
    [name |-> "ISATOM?", usage |-> "(isAtom? <expr>)", stdEvalOrd |-> TRUE],
    [name |-> "ISLIST?", usage |-> "(isList? <expr>)", stdEvalOrd |-> TRUE],
    [name |-> "ISMAP?", usage |-> "(isMap? <expr>)", stdEvalOrd |-> TRUE],
    [name |-> "ISSTRING?", usage |-> "(isString? <expr>)", stdEvalOrd |-> TRUE],
    [name |-> "ISFUNCTION?", usage |-> "(isFunction? <expr>)", stdEvalOrd |-> TRUE],
    [name |-> "IS?", usage |-> "(is? <expr1> <expr2>)", stdEvalOrd |-> TRUE],
    [name |-> "=", usage |-> "(= <expr1> <expr2> ...)", stdEvalOrd |-> TRUE],
    [name |-> "<>", usage |-> "(<> <expr1> <expr2> ...)", stdEvalOrd |-> TRUE],
    [name |-> "<", usage |-> "(< <expr1> <expr2> ...)", stdEvalOrd |-> TRUE],
    [name |-> "<=", usage |-> "(<= <expr1> <expr2> ...)", stdEvalOrd |-> TRUE],
    [name |-> ">", usage |-> "(> <expr1> <expr2> ...)", stdEvalOrd |-> TRUE],
    [name |-> ">=", usage |-> "(>= <expr1> <expr2> ...)", stdEvalOrd |-> TRUE],
    [name |-> "NOT", usage |-> "(not <expr>)", stdEvalOrd |-> TRUE],
    [name |-> "AND", usage |-> "(and <expr1> <expr2> ...)", stdEvalOrd |-> TRUE],
    [name |-> "OR", usage |-> "(or <expr1> <expr2> ...)", stdEvalOrd |-> TRUE],
    [name |-> "FLOAT", usage |-> "(float <expr>)", stdEvalOrd |-> TRUE],
    [name |-> "STRING", usage |-> "(string <expr1> <expr2> ...)", stdEvalOrd |-> TRUE],
    [name |-> "WRITE!", usage |-> "(write! <object>)", stdEvalOrd |-> TRUE],
    [name |-> "WRITELN!", usage |-> "(writeLn! <object>)", stdEvalOrd |-> TRUE],
    [name |-> "READLN!", usage |-> "", stdEvalOrd |-> TRUE]
    >>

PrimitiveNames == { PrimitiveRegistry[i].name : i \in 1..Len(PrimitiveRegistry) }

PrimitiveInfo(name) ==
    PrimitiveRegistry[CHOOSE i \in 1..Len(PrimitiveRegistry) :
                          PrimitiveRegistry[i].name = name]

LPrimitive(name, gen) == [k |-> "prim", name |-> name, gen |-> gen]

ConstantNames == {"NULL", "PI", "E", "INF", "-INF", "NAN"}

\* the dictionary constructPrimitives returns: gen numbers the call, lnull is
\* the LList it has just made for NULL
primitiveDict(gen, lnull) ==
    [n \in PrimitiveNames \cup ConstantNames |->
        CASE n = "NULL" -> lnull
          [] n = "PI" -> FloatC("pi")
          [] n = "E" -> FloatC("e")
          [] n = "INF" -> FloatC("inf")
          [] n = "-INF" -> FloatC("-inf")
          [] n = "NAN" -> FloatC("nan")
          [] OTHER -> LPrimitive(n, gen)]

-----------------------------------------------------------------------------
(* The evaluator's state st: [frames, GLOBAL_SCOPE, heap, LNULL,           *)
(* INSIDE_BACKQUOTE], the part of the program state an evaluation reads    *)
(* and writes.  An evaluator operator returns [st, exc, val].              *)

Ret(st, val) == [st |-> st, exc |-> NoExc, val |-> val]
Throw(st, exc) == [st |-> st, exc |-> exc, val |-> PyNone]
Failed(r) == r.exc.type # "none"

LListRef(id) == [k |-> "list", id |-> id]
LListObj(elts) == [k |-> "LList", list |-> elts]

\* LList( *elements ): a new object
NewLList(st, elts) ==
    LET id == Len(st.heap) + 1 IN
    Ret([st EXCEPT !.heap = Append(@, LListObj(elts))], LListRef(id))

_list(st, v) == st.heap[v.id].list

\* the fractions.Fraction object of a literal of the program text: the object
\* is told from the other Fractions of its value by its place in the heap.
\* A Fraction that arithmetic returns is a new object and carries no place.
NewFraction(st, v) ==
    Ret([st EXCEPT !.heap = Append(@, [k |-> "Fraction"])],
        [k |-> "frac", n |-> v.n, d |-> v.d, id |-> Len(st.heap) + 1])

\* v is a Fraction whose object is known
IsLiteralFraction(v) == v.k = "frac" /\ "id" \in DOMAIN v

\* the reader's LList objects as objects of the heap, children first
RECURSIVE Alloc(_, _)
RECURSIVE AllocAll(_, _, _)
Alloc(st, tree) ==
    IF tree.k = "llist"
    THEN LET r == AllocAll(st, tree.elts, << >>) IN NewLList(r.st, r.val)
    ELSE IF tree.k = "frac" THEN NewFraction(st, tree)
    ELSE Ret(st, tree)

AllocAll(st, trees, acc) ==
    IF trees = << >> THEN Ret(st, acc)
    ELSE LET r == Alloc(st, Head(trees)) IN
         AllocAll(r.st, Tail(trees), Append(acc, r.val))

-----------------------------------------------------------------------------
(* SymbolTable (SymbolTable.py).  A frame is [parent, locals]; parent 0 is *)
(* None, and GLOBAL_SCOPE 0 is None.                                       *)

\* SymbolTable( parent, **initialNameValDict ): the new frame's number in val
SymbolTable(st, parent, initialNameValDict) ==
    LET id == Len(st.frames) + 1
        st1 == [st EXCEPT !.frames =
                   Append(@, [parent |-> parent, locals |-> initialNameValDict])]
    IN  Ret(IF st.GLOBAL_SCOPE = 0 THEN [st1 EXCEPT !.GLOBAL_SCOPE = id] ELSE st1, id)

\* reInitialize as it would be if it updated root._locals in place of
\* replacing it
reInitialize_update(st, initialNameValDict) ==
    LET root == st.GLOBAL_SCOPE IN
    Ret([st EXCEPT !.frames[root].locals =
            [n \in DOMAIN @ \cup DOMAIN initialNameValDict |->
                IF n \in DOMAIN initialNameValDict THEN initialNameValDict[n] ELSE @[n]]],
        root)

reInitialize(st, initialNameValDict) ==
    LET root == st.GLOBAL_SCOPE IN
    Ret([st EXCEPT !.frames[root].locals = initialNameValDict], root)

Bind(locals, key, value) ==
    [n \in DOMAIN locals \cup {key} |-> IF n = key THEN value ELSE locals[n]]

defLocal(st, env, key, value) ==
    Ret([st EXCEPT !.frames[env].locals = Bind(@, key, value)], value)

defGlobal(st, key, value) ==
    Ret([st EXCEPT !.frames[st.GLOBAL_SCOPE].locals = Bind(@, key, value)], value)

\* findDef as it would be if it stopped at the first scope
findDef_first(st, env, key) == env

\* the frame where key is defined, searching from env outward, or 0 (None)
RECURSIVE findDef(_, _, _)
findDef(st, env, key) ==
    IF env = 0 THEN 0
    ELSE IF key \in DOMAIN st.frames[env].locals THEN env
    ELSE findDef(st, st.frames[env].parent, key)

\* getValue as it would be if an outer binding won over an inner one
RECURSIVE getValue_outermost(_, _, _)
getValue_outermost(st, scope, key) ==
    IF scope = 0 THEN PyNone
    ELSE IF getValue_outermost(st, st.frames[scope].parent, key).k # "None"
    THEN getValue_outermost(st, st.frames[scope].parent, key)
    ELSE IF key \in DOMAIN st.frames[scope].locals THEN st.frames[scope].locals[key]
    ELSE PyNone

RECURSIVE getValue(_, _, _)
getValue(st, scope, key) ==
    IF scope = 0 THEN PyNone
    ELSE IF key \in DOMAIN st.frames[scope].locals THEN st.frames[scope].locals[key]
    ELSE getValue(st, st.frames[scope].parent, key)

RECURSIVE undef(_, _, _)
undef(st, scope, key) ==
    IF scope = 0 THEN st
    ELSE IF key \in DOMAIN st.frames[scope].locals
    THEN [st EXCEPT !.frames[scope].locals = [n \in DOMAIN @ \ {key} |-> @[n]]]
    ELSE undef(st, st.frames[scope].parent, key)

openScope(st, env) == SymbolTable(st, env, [n \in {} |-> PyNone])

closeScope(st, env) == st.frames[env].parent

-----------------------------------------------------------------------------
(* Python's str, repr and arithmetic on the values the model follows.      *)

StrModelled(v) == v.k \in {"sym", "str", "int"}

\* str(v) for a symbol, a string or an integer
PyStr(v) == IF v.k = "int" THEN ToString(v.v) ELSE v.v

\* repr(v) for a symbol or an integer
PyRepr(v) == IF v.k = "int" THEN ToString(v.v) ELSE v.v

NumModelled(v) == v.k \in {"int", "frac"} \/ (v.k = "float" /\ v.c = "")
NumOf(v) == IF v.k = "int" THEN [n |-> v.v, d |-> 1] ELSE [n |-> v.n, d |-> v.d]

\* the kind Python's +, - and * give two numbers: the widest of the two
Widest(a, b) ==
    IF "float" \in {a.k, b.k} THEN "float"
    ELSE IF "frac" \in {a.k, b.k} THEN "frac"
    ELSE "int"

MkNum(kind, n, d) ==
    CASE kind = "int" -> IntV(n \div d)
      [] kind = "frac" -> Fraction(n, d)
      [] OTHER -> Float(n, d)

\* a Python binary operator: [exc, val]
PyVal(val) == [exc |-> NoExc, val |-> val]
PyRaise(exc) == [exc |-> exc, val |-> PyNone]

PyArith(op, a, b) ==
    IF a.k \notin L_NUMBER \/ b.k \notin L_NUMBER
    THEN IF {a.k, b.k} \subseteq {"int", "str", "list"} /\ op \in {"+", "*"}
              /\ {a.k, b.k} # {"int", "list"} /\ {a.k, b.k} # {"list"}
              /\ (op = "*" => "int" \in {a.k, b.k}) /\ (op = "+" => a.k = b.k)
         THEN PyRaise(Unmodelled("str " \o op))
         ELSE PyRaise(PyExc("TypeError"))
    ELSE IF ~NumModelled(a) \/ ~NumModelled(b)
    THEN PyRaise(Unmodelled("float constant " \o op))
    ELSE LET x == NumOf(a)
             y == NumOf(b)
         IN  CASE op = "+" -> PyVal(MkNum(Widest(a, b), x.n * y.d + y.n * x.d, x.d * y.d))
               [] op = "-" -> PyVal(MkNum(Widest(a, b), x.n * y.d - y.n * x.d, x.d * y.d))
               [] op = "*" -> PyVal(MkNum(Widest(a, b), x.n * y.n, x.d * y.d))
               [] op = "/" ->
                    IF y.n = 0 THEN PyRaise(PyExc("ZeroDivisionError"))
                    \* x / y on two ints is Python's true division: a float
                    ELSE IF a.k = "int" /\ b.k = "int"
                    THEN PyVal(Float(x.n, y.n))
                    ELSE PyVal(MkNum(Widest(a, b), x.n * y.d, x.d * y.n))

\* functools.reduce( lambda x,y: x op y, args ) from the accumulator acc
RECURSIVE PyReduce(_, _, _)

\* one step of the reduction: r is what "x op y" gave, args what is left
PyReduceStep(op, r, args) ==
    IF r.exc.type # "none" THEN r ELSE PyReduce(op, r.val, args)

PyReduce(op, acc, args) ==
    IF args = << >> THEN PyVal(acc)
    ELSE PyReduceStep(op, PyArith(op, acc, Head(args)), Tail(args))

\* LypsInterpreter._lTrue
_lTrue(st, lypsExpr) ==
    CASE lypsExpr.k = "list" -> Len(_list(st, lypsExpr)) # 0
      [] lypsExpr.k = "pylist" -> Len(lypsExpr.elts) # 0
      [] lypsExpr.k = "int" -> lypsExpr.v # 0
      [] OTHER -> TRUE

\* Python's a == b.  Two numbers compare by value whatever their types; a
\* float constant (PI, E, INF, -INF, NAN) equals only itself, NAN not even
\* that.  LSymbol.__eq__ compares _val, LList.__eq__ the lengths and then
\* the elements; the other objects compare by identity.
RECURSIVE PyEq(_, _, _)
PyEq(st, a, b) ==
    CASE a.k \in L_NUMBER /\ b.k \in L_NUMBER ->
            IF NumModelled(a) /\ NumModelled(b)
            THEN NumOf(a).n * NumOf(b).d = NumOf(b).n * NumOf(a).d
            ELSE ~NumModelled(a) /\ ~NumModelled(b) /\ a.c = b.c /\ a.c # "nan"
      [] a.k = "list" /\ b.k = "list" ->
            /\ Len(_list(st, a)) = Len(_list(st, b))
            /\ \A i \in 1..Len(_list(st, a)) :
                  PyEq(st, _list(st, a)[i], _list(st, b)[i])
      [] OTHER -> a = b

-----------------------------------------------------------------------------
(* LFunction and LMacro (LypsAST.py).                                      *)

\* setName: [ x._val for x in self._params ] raises when the parameters are
\* not an iterable of symbols; the _reprStr it builds is not modelled
setName(st, params) ==
    CASE params.k = "list" ->
            IF \A i \in 1..Len(_list(st, params)) : _list(st, params)[i].k = "sym"
            THEN NoExc ELSE PyExc("AttributeError")
      [] params.k = "str" -> IF params.v = "" THEN NoExc ELSE PyExc("AttributeError")
      [] OTHER -> PyExc("TypeError")

\* LFunction( name, params, bodyExprLst ) and LMacro( ... ); kind is "fn" or
\* "macro"
NewCallable(st, kind, name, params, body) ==
    LET e == setName(st, params)
        id == Len(st.heap) + 1
        obj == [k |-> IF kind = "fn" THEN "LFunction" ELSE "LMacro",
                name |-> name, params |-> params, body |-> body]
    IN  IF e.type # "none" THEN Throw(st, e)
        ELSE Ret([st EXCEPT !.heap = Append(@, obj)], [k |-> kind, id |-> id])

-----------------------------------------------------------------------------
(* The primitives of constructPrimitives.  Each takes the evaluator state, *)
(* the environment it is called in and its arguments.                      *)

\* what an "except:" clause catches: every exception of the program
Caught(r) == Failed(r) /\ r.exc.type # "Unmodelled"

RECURSIVE _lEval(_, _, _, _)
RECURSIVE backquote_expand(_, _, _)

\* "for expr in exprs: last = _lEval( env, expr )": all the values, in order
RECURSIVE EvalEach(_, _, _, _)
EvalEach(st, env, exprs, acc) ==
    IF exprs = << >> THEN Ret(st, acc)
    ELSE LET r == _lEval(st, env, Head(exprs), << >>) IN
         IF Failed(r) THEN r
         ELSE EvalEach(r.st, env, Tail(exprs), Append(acc, r.val))

\* "if isinstance( val, LFunction ): val.setName( key )"
setNameOf(st, val) ==
    IF val.k = "fn" THEN setName(st, st.heap[val.id].params) ELSE NoExc

\* LP_defLocal as it would be if it called env.defGlobal
LP_defLocal_global(st, env, args) ==
    IF Len(args) # 2
    THEN Throw(st, LypsRuntimeFuncError("DEF!", "2 arguments expected."))
    ELSE defGlobal(st, PyStr(args[1]), args[2])

LP_defLocal(st, env, args) ==
    IF Len(args) # 2
    THEN Throw(st, LypsRuntimeFuncError("DEF!", "2 arguments expected."))
    ELSE LET key == args[1]
             val == args[2]
         IN  IF setNameOf(st, val).type # "none"
             THEN Throw(st, LypsRuntimeFuncError("DEF!", "Unknown error."))
             ELSE IF ~StrModelled(key) THEN Throw(st, Unmodelled("str of a key"))
             ELSE defLocal(st, env, PyStr(key), val)

LP_defGlobal(st, env, args) ==
    IF Len(args) # 2
    THEN Throw(st, LypsRuntimeFuncError("DEF!!", "2 arguments expected."))
    ELSE LET key == args[1]
             val == args[2]
         IN  IF setNameOf(st, val).type # "none"
             THEN Throw(st, LypsRuntimeFuncError("DEF!!", "Unknown error."))
             ELSE IF ~StrModelled(key) THEN Throw(st, Unmodelled("str of a key"))
             ELSE defGlobal(st, PyStr(key), val)

\* DefineCallable as it would be if the name were bound before the callable
\* is built
DefineCallable_bindFirst(theFunc, env, fnName, global) ==
    IF Failed(theFunc)
    THEN Throw(IF global THEN defGlobal(theFunc.st, PyStr(fnName), PyNone).st
               ELSE defLocal(theFunc.st, env, PyStr(fnName), PyNone).st,
               theFunc.exc)
    ELSE IF global THEN defGlobal(theFunc.st, PyStr(fnName), theFunc.val)
    ELSE defLocal(theFunc.st, env, PyStr(fnName), theFunc.val)

\* the common shape of defun!, defun!! and defmacro!!: errName is the name of
\* the primitive their LypsRuntimeFuncError is built from
\* "return env.defLocal( str(fnName), theFunc )", or defGlobal
DefineCallable(theFunc, env, fnName, global) ==
    IF Failed(theFunc) THEN theFunc
    ELSE IF global THEN defGlobal(theFunc.st, PyStr(fnName), theFunc.val)
    ELSE defLocal(theFunc.st, env, PyStr(fnName), theFunc.val)

Definer(st, env, args, errName, kind, global) ==
    IF Len(args) < 2
    THEN Throw(st, LypsRuntimeFuncError(errName, "3 or more arguments expected."))
    ELSE LET fnName == args[1]
             funcParams == args[2]
             funcBody == [k |-> "pylist", elts |-> SubSeq(args, 3, Len(args))]
         IN  IF fnName.k # "sym"
             THEN Throw(st, LypsRuntimeFuncError(errName, "Argument 1 expected to be a symbol."))
             ELSE IF funcParams.k # "list"
             THEN Throw(st, LypsRuntimeFuncError(errName,
                                "Argument 2 expected to be a list of symbols."))
             ELSE DefineCallable(NewCallable(st, kind, fnName, funcParams, funcBody),
                                 env, fnName, global)

LP_defunLocal(st, env, args) == Definer(st, env, args, "DEFUN!", "fn", FALSE)

LP_defunGlobal(st, env, args) == Definer(st, env, args, "DEFUN!!", "fn", TRUE)

\* LP_defmacro raises its errors with LP_defunGlobal
LP_defmacro(st, env, args) == Definer(st, env, args, "DEFUN!!", "macro", TRUE)

LP_set(st, env, args) ==
    IF Len(args) # 2
    THEN Throw(st, LypsRuntimeFuncError("SET!", "2 arguments expected."))
    ELSE LET val == args[2] IN
         IF ~StrModelled(args[1]) THEN Throw(st, Unmodelled("str of a key"))
         ELSE LET key == PyStr(args[1])
                  found == findDef(st, env, key)
                  theSymTab == IF found = 0 THEN env ELSE found
              IN  IF setNameOf(st, val).type # "none"
                  THEN Throw(st, LypsRuntimeFuncError("SET!", "Unknown error."))
                  ELSE defLocal(st, theSymTab, key, val)

\* "key = args": the key is the tuple of the arguments, and str of a tuple
\* of one element is "(" repr ",)"
LP_undef(st, env, args) ==
    IF Len(args) # 1
    THEN Throw(st, LypsRuntimeFuncError("UNDEF!", "1 argument exptected."))
    ELSE IF args[1].k \notin {"sym", "int"} THEN Throw(st, Unmodelled("repr of a key"))
    ELSE Ret(undef(st, env, "(" \o PyRepr(args[1]) \o ",)"), st.LNULL)

LP_lam(st, env, args) ==
    IF Len(args) < 1
    THEN Throw(st, LypsRuntimeFuncError("LAM", "2 arguments expected."))
    ELSE NewCallable(st, "fn", LSymbol(""), args[1],
                     [k |-> "pylist", elts |-> Tail(args)])

\* LP_block as it would be without "env = env.openScope( )"
LP_block_noScope(st, env, args) ==
    IF Len(args) < 1
    THEN Throw(st, LypsRuntimeFuncError("BLOCK", "1 or more arguments expected."))
    ELSE LET r == EvalEach(st, env, args, << >>) IN
         IF Failed(r) THEN r ELSE Ret(r.st, r.val[Len(r.val)])

LP_block(st, env, args) ==
    IF Len(args) < 1
    THEN Throw(st, LypsRuntimeFuncError("BLOCK", "1 or more arguments expected."))
    ELSE LET o == openScope(st, env)
             r == EvalEach(o.st, o.val, args, << >>)
         IN  IF Failed(r) THEN r ELSE Ret(r.st, r.val[Len(r.val)])

\* LP_if as it would be without its "except:" clause
LP_if_reraise(st, env, args) ==
    IF ~(2 <= Len(args) /\ Len(args) <= 3)
    THEN Throw(st, LypsRuntimeFuncError("IF", "2 or 3 arguments expected."))
    ELSE LET condResult == _lEval(st, env, args[1], << >>)
         IN  IF Failed(condResult) THEN condResult
             ELSE IF _lTrue(condResult.st, condResult.val)
             THEN _lEval(condResult.st, env, args[2], << >>)
             ELSE IF Len(args) = 3
             THEN _lEval(condResult.st, env, args[3], << >>)
             ELSE Ret(condResult.st, condResult.st.LNULL)

LP_if(st, env, args) ==
    IF ~(2 <= Len(args) /\ Len(args) <= 3)
    THEN Throw(st, LypsRuntimeFuncError("IF", "2 or 3 arguments expected."))
    ELSE LET condResult == _lEval(st, env, args[1], << >>)
             r == IF Failed(condResult) THEN condResult
                  ELSE IF _lTrue(condResult.st, condResult.val)
                  THEN _lEval(condResult.st, env, args[2], << >>)
                  ELSE IF Len(args) = 3
                  THEN _lEval(condResult.st, env, args[3], << >>)
                  ELSE Ret(condResult.st, condResult.st.LNULL)
         IN  IF Caught(r) THEN Throw(r.st, LypsRuntimeFuncError("IF", "Unknown error."))
             ELSE r

RECURSIVE WhileLoop(_, _, _, _, _)

\* r is what the body gave: "latestResult = _lEval( env, bodyExpr )"
WhileBody(r, env, conditionExpr, bodyExpr) ==
    IF Failed(r) THEN r
    ELSE WhileLoop(r.st, env, conditionExpr, bodyExpr, r.val)

\* condResult is what the condition gave: "while _lTrue( condResult ):"
WhileTest(condResult, env, conditionExpr, bodyExpr, latestResult) ==
    IF Failed(condResult) THEN condResult
    ELSE IF _lTrue(condResult.st, condResult.val)
    THEN WhileBody(_lEval(condResult.st, env, bodyExpr, << >>), env,
                   conditionExpr, bodyExpr)
    ELSE Ret(condResult.st, latestResult)

WhileLoop(st, env, conditionExpr, bodyExpr, latestResult) ==
    WhileTest(_lEval(st, env, conditionExpr, << >>), env, conditionExpr, bodyExpr,
              latestResult)

\* "conditionExpr, bodyExpr = args" raises ValueError unless there are two
LP_while(st, env, args) ==
    IF Len(args) # 2
    THEN Throw(st, LypsRuntimeFuncError("WHILE", "2 arguments expected."))
    ELSE LET latestResult == NewLList(st, << >>)
             r == WhileLoop(latestResult.st, env, args[1], args[2], latestResult.val)
         IN  IF Caught(r)
             THEN Throw(r.st, LypsRuntimeFuncError("WHILE",
                           "Error evaluating condition for while loop."))
             ELSE r

\* LP_quote as it would be if it gave a copy of a quoted list
LP_quote_copy(st, env, args) ==
    IF Len(args) # 1
    THEN Throw(st, LypsRuntimeFuncError("QUOTE", "1 argument exptected."))
    ELSE IF args[1].k = "list" THEN NewLList(st, _list(st, args[1]))
    ELSE Ret(st, args[1])

LP_quote(st, env, args) ==
    IF Len(args) # 1
    THEN Throw(st, LypsRuntimeFuncError("QUOTE", "1 argument exptected."))
    ELSE Ret(st, args[1])

\* LP_backquote as it would be with "INSIDE_BACKQUOTE = False" after the
\* expansion and no try ... finally
LP_backquote_noFinally(st, env, gen, args) ==
    IF Len(args) # 1
    THEN Throw(st, LypsRuntimeFuncError("BACKQUOTE", "1 argument exptected."))
    ELSE IF st.INSIDE_BACKQUOTE[gen]
    THEN Throw(st, LypsRuntimeFuncError("BACKQUOTE", "Cannot nest backquotes."))
    ELSE LET expandedForm ==
                 backquote_expand([st EXCEPT !.INSIDE_BACKQUOTE[gen] = TRUE], env, args[1])
         IN  IF Failed(expandedForm) THEN expandedForm
             ELSE [expandedForm EXCEPT !.st.INSIDE_BACKQUOTE[gen] = FALSE]

\* gen tells which constructPrimitives call made the primitive, and so which
\* INSIDE_BACKQUOTE it closes over
LP_backquote(st, env, gen, args) ==
    IF Len(args) # 1
    THEN Throw(st, LypsRuntimeFuncError("BACKQUOTE", "1 argument exptected."))
    ELSE IF st.INSIDE_BACKQUOTE[gen]
    THEN Throw(st, LypsRuntimeFuncError("BACKQUOTE", "Cannot nest backquotes."))
    ELSE LET expandedForm ==
                 backquote_expand([st EXCEPT !.INSIDE_BACKQUOTE[gen] = TRUE], env, args[1])
         IN  \* finally: INSIDE_BACKQUOTE = False
             [expandedForm EXCEPT !.st.INSIDE_BACKQUOTE[gen] = FALSE]

LP_comma(st, env, gen, args) ==
    IF Len(args) # 1
    THEN Throw(st, LypsRuntimeFuncError("COMMA", "1 argument exptected."))
    ELSE IF ~st.INSIDE_BACKQUOTE[gen]
    THEN Throw(st, LypsRuntimeFuncError("COMMA", "COMMA can only occur inside a BACKQUOTE."))
    ELSE _lEval(st, env, args[1], << >>)

LP_comma_at(st, env, gen, args) ==
    IF Len(args) # 1
    THEN Throw(st, LypsRuntimeFuncError("COMMA-AT", "1 argument exptected."))
    ELSE IF ~st.INSIDE_BACKQUOTE[gen]
    THEN Throw(st, LypsRuntimeFuncError("COMMA",
                       "COMMA-AT can only occur inside a BACKQUOTE."))
    ELSE _lEval(st, env, args[1], << >>)

LP_eval(st, env, args) ==
    IF Len(args) # 1
    THEN Throw(st, LypsRuntimeFuncError("EVAL", "1 argument exptected."))
    ELSE _lEval(st, env, args[1], << >>)

LP_list(st, env, args) ==
    IF Len(args) = 0
    THEN Throw(st, LypsRuntimeFuncError("LIST", "1 or more arguments expected."))
    ELSE NewLList(st, args)

LP_first(st, env, args) ==
    IF Len(args) # 1
    THEN Throw(st, LypsRuntimeFuncError("FIRST", "1 argument expected."))
    ELSE LET theList == args[1] IN
         IF theList.k # "list"
         THEN Throw(st, LypsRuntimeFuncError("FIRST", "1st argument expected to be a list."))
         ELSE IF _list(st, theList) = << >> THEN NewLList(st, << >>)
         ELSE Ret(st, _list(st, theList)[1])

\* the raise of LP_rest passes usage=, which LypsRuntimeFuncError does not
\* take: a TypeError
LP_rest(st, env, args) ==
    IF Len(args) # 1 THEN Throw(st, PyExc("TypeError"))
    ELSE LET theList == args[1] IN
         IF theList.k # "list" THEN Throw(st, PyExc("AttributeError"))
         ELSE IF Len(_list(st, theList)) < 2 THEN NewLList(st, << >>)
         ELSE NewLList(st, Tail(_list(st, theList)))

\* LP_cons as it would be if it inserted into its argument and returned it
LP_cons_insert(st, env, args) ==
    IF Len(args) # 2
    THEN Throw(st, LypsRuntimeFuncError("CONS", "2 arguments exptected."))
    ELSE IF args[2].k # "list"
    THEN Throw(st, LypsRuntimeFuncError("CONS", "Invalid argument."))
    ELSE Ret([st EXCEPT !.heap[args[2].id].list = <<args[1]>> \o @], args[2])

LP_cons(st, env, args) ==
    IF Len(args) # 2
    THEN Throw(st, LypsRuntimeFuncError("CONS", "2 arguments exptected."))
    ELSE LET arg1 == args[1]
             arg2 == args[2]
         IN  IF arg2.k # "list"
             THEN Throw(st, LypsRuntimeFuncError("CONS", "Invalid argument."))
             ELSE NewLList(st, <<arg1>> \o _list(st, arg2))

LP_push(st, env, args) ==
    IF Len(args) # 2
    THEN Throw(st, LypsRuntimeFuncError("PUSH!", "2 arguments exptected."))
    ELSE LET alist == args[1]
             value == args[2]
         IN  IF alist.k = "list"
             THEN Ret([st EXCEPT !.heap[alist.id].list = Append(@, value)], alist)
             ELSE Ret(st, st.LNULL)

\* the common shape of LP_add, LP_sub, LP_mul and LP_div
Arith(st, name, r) ==
    IF r.exc.type = "Unmodelled" THEN Throw(st, r.exc)
    ELSE IF r.exc.type # "none"
    THEN Throw(st, LypsRuntimeFuncError(name, "Invalid argument."))
    ELSE Ret(st, r.val)

LP_add(st, env, args) ==
    IF Len(args) < 1
    THEN Throw(st, LypsRuntimeFuncError("+", "1 or more arguments expected."))
    ELSE Arith(st, "+", PyReduce("+", IntV(0), args))

LP_sub(st, env, args) ==
    IF Len(args) < 1
    THEN Throw(st, LypsRuntimeFuncError("-", "1 or more arguments expected."))
    ELSE IF Len(args) = 1 THEN Arith(st, "-", PyArith("*", IntV(-1), args[1]))
    ELSE Arith(st, "-", PyReduce("-", Head(args), Tail(args)))

LP_mul(st, env, args) ==
    IF Len(args) < 2
    THEN Throw(st, LypsRuntimeFuncError("*", "2 or more arguments exptected."))
    ELSE Arith(st, "*", PyReduce("*", Head(args), Tail(args)))

LP_div(st, env, args) ==
    IF Len(args) < 2
    THEN Throw(st, LypsRuntimeFuncError("/", "2 or more arguments exptected."))
    ELSE Arith(st, "/", PyReduce("/", Head(args), Tail(args)))

\* "(arg == 0) or (arg is LNULL) or (arg is None)": LNULL is the module's
\* global, read when the primitive runs
IsFalseArg(st, arg) ==
    PyEq(st, arg, IntV(0)) \/ arg = st.LNULL \/ arg.k = "None"

LP_not(st, env, args) ==
    IF Len(args) # 1
    THEN Throw(st, LypsRuntimeFuncError("NOT", "1 argument exptected."))
    ELSE LET arg1 == args[1] IN
         Ret(st, IF \/ PyEq(st, arg1, IntV(0))
                    \/ (arg1.k = "list" /\ Len(_list(st, arg1)) = 0)
                    \/ arg1.k = "None"
                 THEN IntV(1) ELSE IntV(0))

LP_and(st, env, args) ==
    IF Len(args) < 2
    THEN Throw(st, LypsRuntimeFuncError("AND", "2 or more arguments exptected."))
    ELSE Ret(st, IF \E i \in 1..Len(args) : IsFalseArg(st, args[i])
                 THEN IntV(0) ELSE IntV(1))

LP_or(st, env, args) ==
    IF Len(args) < 2
    THEN Throw(st, LypsRuntimeFuncError("OR", "2 or more arguments exptected."))
    ELSE Ret(st, IF \E i \in 1..Len(args) : ~IsFalseArg(st, args[i])
                 THEN IntV(1) ELSE IntV(0))

\* "arg1 is arg2" is followed for the objects the model tells apart by
\* identity: a list, a function, a macro, a primitive and the Fraction of a
\* literal.  An LSymbol is a new object wherever it comes from, and so is a
\* Fraction that arithmetic returned.
PyIs(arg1, arg2) ==
    IF arg1.k = "frac" /\ arg2.k = "frac"
           /\ (IsLiteralFraction(arg1) \/ IsLiteralFraction(arg2))
    THEN IsLiteralFraction(arg1) /\ IsLiteralFraction(arg2) /\ arg1.id = arg2.id
    ELSE arg1 = arg2

LP_is(st, env, args) ==
    IF Len(args) # 2
    THEN Throw(st, LypsRuntimeFuncError("IS?", "2 arguments exptected."))
    ELSE LET arg1 == args[1]
             arg2 == args[2]
         IN  IF arg1.k \in {"int", "float", "str"}
             THEN Ret(st, IF PyEq(st, arg1, arg2) THEN IntV(1) ELSE IntV(0))
             ELSE IF arg1.k \in {"sym", "frac"} /\ arg1 = arg2
                     /\ ~IsLiteralFraction(arg1)
             THEN Throw(st, Unmodelled("identity of a symbol or a fraction"))
             ELSE Ret(st, IF PyIs(arg1, arg2) THEN IntV(1) ELSE IntV(0))

\* the loop of LP_cond over its cases, caseNum counting from 1
RECURSIVE CondCases(_, _, _, _)

\* r is what the test of the case gave
CondBody(r, env, case, rest, caseNum) ==
    IF Failed(r) THEN r
    ELSE IF _lTrue(r.st, r.val) THEN _lEval(r.st, env, case[2], << >>)
    ELSE CondCases(r.st, env, rest, caseNum + 1)

CondCases(st, env, cases, caseNum) ==
    IF cases = << >> THEN NewLList(st, << >>)
    ELSE IF Head(cases).k # "list" THEN Throw(st, PyExc("AssertionError"))
    ELSE IF Len(_list(st, Head(cases))) # 2
    THEN Throw(st, LypsRuntimeFuncError("COND",
            "Entry " \o ToString(caseNum)
               \o " does not contain a (<cond:expr> <body:expr>) pair."))
    ELSE CondBody(_lEval(st, env, _list(st, Head(cases))[1], << >>), env,
                  _list(st, Head(cases)), Tail(cases), caseNum)

LP_cond(st, env, args) ==
    IF Len(args) < 1
    THEN Throw(st, LypsRuntimeFuncError("COND", "1 or more argument exptected."))
    ELSE CondCases(st, env, args, 1)

\* LPrimitive.__call__: self._fn( env, *args )
CallPrimitive(st, env, fnDef, args) ==
    CASE fnDef.name = "DEF!" -> LP_defLocal(st, env, args)
      [] fnDef.name = "DEF!!" -> LP_defGlobal(st, env, args)
      [] fnDef.name = "DEFUN!" -> LP_defunLocal(st, env, args)
      [] fnDef.name = "DEFUN!!" -> LP_defunGlobal(st, env, args)
      [] fnDef.name = "DEFMACRO!!" -> LP_defmacro(st, env, args)
      [] fnDef.name = "SET!" -> LP_set(st, env, args)
      [] fnDef.name = "UNDEF!" -> LP_undef(st, env, args)
      [] fnDef.name = "LAM" -> LP_lam(st, env, args)
      [] fnDef.name = "BLOCK" -> LP_block(st, env, args)
      [] fnDef.name = "IF" -> LP_if(st, env, args)
      [] fnDef.name = "WHILE" -> LP_while(st, env, args)
      [] fnDef.name = "QUOTE" -> LP_quote(st, env, args)
      [] fnDef.name = "BACKQUOTE" -> LP_backquote(st, env, fnDef.gen, args)
      [] fnDef.name = "COMMA" -> LP_comma(st, env, fnDef.gen, args)
      [] fnDef.name = "COMMA-AT" -> LP_comma_at(st, env, fnDef.gen, args)
      [] fnDef.name = "EVAL" -> LP_eval(st, env, args)
      [] fnDef.name = "LIST" -> LP_list(st, env, args)
      [] fnDef.name = "FIRST" -> LP_first(st, env, args)
      [] fnDef.name = "REST" -> LP_rest(st, env, args)
      [] fnDef.name = "CONS" -> LP_cons(st, env, args)
      [] fnDef.name = "PUSH!" -> LP_push(st, env, args)
      [] fnDef.name = "NOT" -> LP_not(st, env, args)
      [] fnDef.name = "AND" -> LP_and(st, env, args)
      [] fnDef.name = "OR" -> LP_or(st, env, args)
      [] fnDef.name = "IS?" -> LP_is(st, env, args)
      [] fnDef.name = "COND" -> LP_cond(st, env, args)
      [] fnDef.name = "+" -> LP_add(st, env, args)
      [] fnDef.name = "-" -> LP_sub(st, env, args)
      [] fnDef.name = "*" -> LP_mul(st, env, args)
      [] fnDef.name = "/" -> LP_div(st, env, args)
      [] OTHER -> Throw(st, Unmodelled(fnDef.name))

-----------------------------------------------------------------------------
(* LypsInterpreter._lEval and backquote_expand.                            *)

\* the parameter loop as it would be if it bound nothing
BindParams_none(st, env, params, args) == Ret(st, env)

\* "for paramName, argVal in zip( params._list, args ): env.defLocal( ... )"
RECURSIVE BindParams(_, _, _, _)
BindParams(st, env, params, args) ==
    IF params = << >> \/ args = << >> THEN Ret(st, env)
    ELSE IF ~StrModelled(Head(params)) THEN Throw(st, Unmodelled("str of a parameter"))
    ELSE BindParams(defLocal(st, env, PyStr(Head(params)), Head(args)).st, env,
                    Tail(params), Tail(args))

\* the body loop of a function call: latestResult after the last expression
RECURSIVE EvalBody(_, _, _, _)
EvalBody(st, env, body, latestResult) ==
    IF body = << >> THEN Ret(st, latestResult)
    ELSE LET expr == Head(body) IN
         IF expr.k \in {"prim", "fn", "map", "list", "sym"}
         THEN LET r == _lEval(st, env, expr, << >>) IN
              IF Failed(r) THEN r ELSE EvalBody(r.st, env, Tail(body), r.val)
         ELSE EvalBody(st, env, Tail(body), expr)

\* EnterCall as it would be if the new scope were opened in the global frame
EnterCall_global(st, env, callable, args) ==
    LET o == openScope(st, st.GLOBAL_SCOPE)
        params == o.st.heap[callable.id].params
    IN  IF params.k # "list" THEN Throw(o.st, PyExc("AttributeError"))
        ELSE BindParams(o.st, o.val, _list(o.st, params), args)

\* the scope and the parameter bindings of a call of an LFunction or LMacro
EnterCall(st, env, callable, args) ==
    LET o == openScope(st, env)
        params == o.st.heap[callable.id].params
    IN  IF params.k # "list" THEN Throw(o.st, PyExc("AttributeError"))
        ELSE BindParams(o.st, o.val, _list(o.st, params), args)

\* the name in "Error evaluating list expression {fnName}."
FnName(st, primary, fnDef) ==
    IF primary.k = "sym" THEN primary.v
    ELSE IF fnDef.k = "prim" THEN fnDef.name
    ELSE st.heap[fnDef.id].name.v

stdEvalOrd(fnDef) ==
    CASE fnDef.k = "prim" -> PrimitiveInfo(fnDef.name).stdEvalOrd
      [] fnDef.k = "fn" -> TRUE
      [] fnDef.k = "macro" -> FALSE

\* fnDef( LypsInterpreter._lEval, env, *args )
Call(st, env, fnDef, args) ==
    IF fnDef.k = "prim" THEN CallPrimitive(st, env, fnDef, args)
    ELSE _lEval(st, env, fnDef, args)

\* "except TypeError: raise LypsRuntimeError( ... )" around the call of a
\* callable of the standard evaluation order: r is what the call gave
ExceptTypeError(r, primary, fnDef) ==
    IF stdEvalOrd(fnDef) /\ r.exc.type = "TypeError"
    THEN Throw(r.st, LypsRuntimeError("Error evaluating list expression "
                                      \o FnName(r.st, primary, fnDef) \o "."))
    ELSE r

\* the call of fnDef: args holds the evaluated arguments, or the argument
\* expressions when fnDef does not use the standard evaluation order
CallWith(env, primary, fnDef, args) ==
    IF Failed(args) THEN args
    ELSE ExceptTypeError(Call(args.st, env, fnDef, args.val), primary, fnDef)

EvalList(st, env, lypsExpr) ==
    LET elts == _list(st, lypsExpr) IN
    IF Len(elts) = 0 THEN NewLList(st, << >>)
    ELSE LET primary == Head(elts)
             exprArgs == Tail(elts)
         IN
         IF primary.k \notin {"list", "sym"}
         THEN Throw(st, LypsRuntimeError(
            "Badly formed list expression.  The first element should be a symbol or function."))
         ELSE LET f == _lEval(st, env, primary, << >>) IN
         IF Failed(f) THEN f
         ELSE IF f.val.k \notin {"prim", "fn", "macro"}
         THEN Throw(f.st, LypsRuntimeError(
            "Badly formed list expression.  The first element should evaluate to a primitive or function."))
         ELSE CallWith(env, primary, f.val,
                       IF stdEvalOrd(f.val) THEN EvalEach(f.st, env, exprArgs, << >>)
                       ELSE Ret(f.st, exprArgs))

_lEval(st, env, lypsExpr, args) ==
    CASE lypsExpr.k = "None" -> NewLList(st, << >>)
      [] lypsExpr.k \in L_ATOM -> Ret(st, lypsExpr)
      [] lypsExpr.k = "sym" ->
            LET result == getValue(st, env, lypsExpr.v) IN
            Ret(st, IF result.k = "None" THEN lypsExpr ELSE result)
      [] lypsExpr.k = "list" -> EvalList(st, env, lypsExpr)
      [] lypsExpr.k = "map" -> Ret(st, lypsExpr)
      [] lypsExpr.k = "fn" ->
            LET e == EnterCall(st, env, lypsExpr, args) IN
            IF Failed(e) THEN e
            ELSE EvalBody(e.st, e.val, e.st.heap[lypsExpr.id].body.elts, PyNone)
      [] lypsExpr.k = "macro" ->
            LET e == EnterCall(st, env, lypsExpr, args) IN
            IF Failed(e) THEN e
            ELSE _lEval(e.st, e.val, e.st.heap[lypsExpr.id].body, << >>)
      [] OTHER -> Throw(st, LypsRuntimeError("Unknown lyps expression type."))

RECURSIVE ExpandEach(_, _, _, _)
ExpandEach(st, env, exprs, acc) ==
    IF exprs = << >> THEN Ret(st, acc)
    ELSE LET r == backquote_expand(st, env, Head(exprs)) IN
         IF Failed(r) THEN r
         ELSE ExpandEach(r.st, env, Tail(exprs), Append(acc, r.val))

backquote_expand(st, env, expr) ==
    IF expr.k = "list"
    THEN IF Len(_list(st, expr)) = 0 THEN NewLList(st, << >>)
         ELSE LET primary == _list(st, expr)[1] IN
              IF primary.k = "sym" /\ primary.v \in {"COMMA", "COMMA-AT"}
              THEN _lEval(st, env, expr, << >>)
              ELSE LET resultList == ExpandEach(st, env, _list(st, expr), << >>) IN
                   IF Failed(resultList) THEN resultList
                   ELSE NewLList(resultList.st, resultList.val)
    ELSE Ret(st, expr)

-----------------------------------------------------------------------------
(* prettyPrintLypsExpr (LypsAST.py) and the __repr__ methods it relies on. *)

RECURSIVE Join(_, _)
Join(strs, sep) ==
    IF strs = << >> THEN ""
    ELSE IF Len(strs) = 1 THEN strs[1]
    ELSE strs[1] \o sep \o Join(Tail(strs), sep)

\* n written with exactly k digits
RECURSIVE Digits(_, _)
Digits(n, k) == IF k = 0 THEN "" ELSE Digits(n \div 10, k - 1) \o ToString(n % 10)

\* repr of a float of value n/d, for the ratios with at most 3 decimals
FloatRepr(v) ==
    IF v.c = "pi" THEN "3.141592653589793"
    ELSE IF v.c = "e" THEN "2.718281828459045"
    ELSE IF v.c # "" THEN v.c
    ELSE LET ks == {k \in 1..3 : Pow10(k) % v.d = 0} IN
         IF ks = {} THEN "float(" \o ToString(v.n) \o "/" \o ToString(v.d) \o ")"
         ELSE LET k == CHOOSE x \in ks : \A y \in ks : x <= y
                  scaled == (Abs(v.n) * Pow10(k)) \div v.d
              IN  (IF v.n < 0 THEN "-" ELSE "") \o ToString(scaled \div Pow10(k))
                  \o "." \o Digits(scaled % Pow10(k), k)

RECURSIVE prettyPrintLypsExpr(_, _)
prettyPrintLypsExpr(st, lypsExpr) ==
    LET Each(elts) == [i \in 1..Len(elts) |-> prettyPrintLypsExpr(st, elts[i])]
        Params(c) == IF c.params.k = "list"
                     THEN Join([i \in 1..Len(_list(st, c.params)) |->
                                   _list(st, c.params)[i].v], " ")
                     ELSE ""
    IN
    CASE lypsExpr.k = "str" -> "\"" \o lypsExpr.v \o "\""
      [] lypsExpr.k = "frac" -> ToString(lypsExpr.n) \o "/" \o ToString(lypsExpr.d)
      [] lypsExpr.k = "int" -> ToString(lypsExpr.v)
      [] lypsExpr.k = "float" -> FloatRepr(lypsExpr)
      [] lypsExpr.k = "sym" -> lypsExpr.v
      [] lypsExpr.k = "None" -> "None"
      [] lypsExpr.k = "list" ->
            IF Len(_list(st, lypsExpr)) = 0 THEN "NULL"
            ELSE "(" \o Join(Each(_list(st, lypsExpr)), " ") \o ")"
      [] lypsExpr.k = "fn" ->
            "(Function " \o st.heap[lypsExpr.id].name.v \o " ("
                \o Params(st.heap[lypsExpr.id]) \o ") ... )"
      [] lypsExpr.k = "macro" ->
            "(Macro " \o st.heap[lypsExpr.id].name.v \o " ("
                \o Params(st.heap[lypsExpr.id]) \o ") ... )"
      [] lypsExpr.k = "prim" -> "<LypsAST.LPrimitive object>"
      [] OTHER -> "<object>"

-----------------------------------------------------------------------------
(* LypsInterpreter: constructPrimitives, __init__, reboot and eval.        *)

State ==
    [frames |-> frames, GLOBAL_SCOPE |-> GLOBAL_SCOPE, heap |-> heap,
     LNULL |-> LNULL, INSIDE_BACKQUOTE |-> INSIDE_BACKQUOTE]

\* the state of a process that has imported the modules: LNULL = LList( )
Imported ==
    [frames |-> << >>, GLOBAL_SCOPE |-> 0, heap |-> <<LListObj(<< >>)>>,
     LNULL |-> LListRef(1), INSIDE_BACKQUOTE |-> << >>]

\* a call of constructPrimitives: a new LNULL, a new INSIDE_BACKQUOTE and new
\* primitive objects that close over it
\* "global LNULL", "LNULL = LList( )" and "INSIDE_BACKQUOTE = False": n is the
\* new list
setLNULL(n) ==
    Ret([n.st EXCEPT !.LNULL = n.val, !.INSIDE_BACKQUOTE = Append(@, FALSE)],
        primitiveDict(Len(n.st.INSIDE_BACKQUOTE) + 1, n.val))

constructPrimitives(st) == setLNULL(NewLList(st, << >>))

\* LypsInterpreter.__init__: val is self._env
\* "SymbolTable( parent=None, **primitiveDict )": c is what constructPrimitives gave
newEnv(c) == SymbolTable(c.st, 0, c.val)

LypsInterpreter(st) == newEnv(constructPrimitives(st))

\* LypsInterpreter.reboot: val is the new self._env
reInitializeEnv(c) == reInitialize(c.st, c.val)

reboot(st, self_env) == reInitializeEnv(constructPrimitives(st))

\* LypsInterpreter.eval: [st, exc, val, out], out the string it returns.
\* strip() takes nothing off the text of the kinds that are printed here.
\* "return prettyPrintLypsExpr( resultExpr ).strip( )"
evalReturn(resultExpr) ==
    [st |-> resultExpr.st, exc |-> resultExpr.exc, val |-> resultExpr.val,
     out |-> IF Failed(resultExpr) THEN ""
             ELSE prettyPrintLypsExpr(resultExpr.st, resultExpr.val)]

\* "resultExpr = LypsInterpreter._lEval( self._env, ast )": a is the AST, its
\* lists being objects
evalAst(self_env, a) == evalReturn(_lEval(a.st, self_env, a.val, << >>))

\* ast is what the parser gave; a ParseError leaves eval
evalParsed(st, self_env, ast) ==
    IF ast.exc # "none"
    THEN [st |-> st, exc |-> [type |-> ast.exc, name |-> "", msg |-> ast.msg],
          val |-> PyNone, out |-> ""]
    ELSE evalAst(self_env, Alloc(st, ast.val))

eval(st, self_env, inputExprStr) == evalParsed(st, self_env, parse(inputExprStr))

-----------------------------------------------------------------------------
(* The source texts the interpreters are given, character by character.    *)

\* (defmacro!! when (c b) <bq>(if ,c ,b NULL))
defWhen ==
    <<"(", "d", "e", "f", "m", "a", "c", "r", "o", "!", "!", " ", "w", "h",
      "e", "n", " ", "(", "c", " ", "b", ")", " ", BackQuoteChar, "(", "i",
      "f", " ", ",", "c", " ", ",", "b", " ", "N", "U", "L", "L", ")", ")">>

\* (when 1 42)
when1 ==
    <<"(", "w", "h", "e", "n", " ", "1", " ", "4", "2", ")">>

\* (when 0 42)
when0 ==
    <<"(", "w", "h", "e", "n", " ", "0", " ", "4", "2", ")">>

\* (def!! 'x 1)
defGlobalX ==
    <<"(", "d", "e", "f", "!", "!", " ", "'", "x", " ", "1", ")">>

\* (def! 'x 2)
defLocalX ==
    <<"(", "d", "e", "f", "!", " ", "'", "x", " ", "2", ")">>

\* (defun!! f () 7)
defunGlobalF ==
    <<"(", "d", "e", "f", "u", "n", "!", "!", " ", "f", " ", "(", ")", " ",
      "7", ")">>

\* (defmacro!! m () 7)
defmacroM ==
    <<"(", "d", "e", "f", "m", "a", "c", "r", "o", "!", "!", " ", "m", " ",
      "(", ")", " ", "7", ")">>

\* (def!! '+ 2)
redefPlus ==
    <<"(", "d", "e", "f", "!", "!", " ", "'", "+", " ", "2", ")">>

\* (push! NULL 1)
pushNull ==
    <<"(", "p", "u", "s", "h", "!", " ", "N", "U", "L", "L", " ", "1", ")">>

\* (block (def! 'x 10) (block (def! 'x 20) x))
blockDef ==
    <<"(", "b", "l", "o", "c", "k", " ", "(", "d", "e", "f", "!", " ", "'",
      "x", " ", "1", "0", ")", " ", "(", "b", "l", "o", "c", "k", " ", "(",
      "d", "e", "f", "!", " ", "'", "x", " ", "2", "0", ")", " ", "x", ")",
      ")">>

\* x 
lookupX ==
    <<"x", " ">>

\* (def! 'x 5)
defTopX ==
    <<"(", "d", "e", "f", "!", " ", "'", "x", " ", "5", ")">>

\* (defun! f (a b) a (list a b))
defunF ==
    <<"(", "d", "e", "f", "u", "n", "!", " ", "f", " ", "(", "a", " ", "b",
      ")", " ", "a", " ", "(", "l", "i", "s", "t", " ", "a", " ", "b", ")",
      ")">>

\* (f 1 2 3)
callF3 ==
    <<"(", "f", " ", "1", " ", "2", " ", "3", ")">>

\* (f 1)
callF1 ==
    <<"(", "f", " ", "1", ")">>

\* (f (+ 1 1) 2)
callF2 ==
    <<"(", "f", " ", "(", "+", " ", "1", " ", "1", ")", " ", "2", ")">>

\* (block (def! 'x 1) (first 5))
errBlock ==
    <<"(", "b", "l", "o", "c", "k", " ", "(", "d", "e", "f", "!", " ", "'",
      "x", " ", "1", ")", " ", "(", "f", "i", "r", "s", "t", " ", "5", ")",
      ")">>

\* (defun! g (a) (def! 'x a) (first 5))
defunG ==
    <<"(", "d", "e", "f", "u", "n", "!", " ", "g", " ", "(", "a", ")", " ",
      "(", "d", "e", "f", "!", " ", "'", "x", " ", "a", ")", " ", "(", "f",
      "i", "r", "s", "t", " ", "5", ")", ")">>

\* (g 1)
callG ==
    <<"(", "g", " ", "1", ")">>

\* (eval f)
evalF ==
    <<"(", "e", "v", "a", "l", " ", "f", ")">>

\* (eval first)
evalFirst ==
    <<"(", "e", "v", "a", "l", " ", "f", "i", "r", "s", "t", ")">>

\* (def! 'x 'y)
defXY ==
    <<"(", "d", "e", "f", "!", " ", "'", "x", " ", "'", "y", ")">>

\* (def! 'y 5)
defY5 ==
    <<"(", "d", "e", "f", "!", " ", "'", "y", " ", "5", ")">>

\* (list (eval 'x) (eval (eval 'x)))
idemX ==
    <<"(", "l", "i", "s", "t", " ", "(", "e", "v", "a", "l", " ", "'", "x",
      ")", " ", "(", "e", "v", "a", "l", " ", "(", "e", "v", "a", "l", " ",
      "'", "x", ")", ")", ")">>

\* (list (eval 1) (eval (eval 1)))
idemOne ==
    <<"(", "l", "i", "s", "t", " ", "(", "e", "v", "a", "l", " ", "1", ")",
      " ", "(", "e", "v", "a", "l", " ", "(", "e", "v", "a", "l", " ", "1",
      ")", ")", ")">>

\* (list (eval ()) (eval (eval ())))
idemNull ==
    <<"(", "l", "i", "s", "t", " ", "(", "e", "v", "a", "l", " ", "(", ")",
      ")", " ", "(", "e", "v", "a", "l", " ", "(", "e", "v", "a", "l", " ",
      "(", ")", ")", ")", ")">>

\* (list (and 1 NULL) (and 1 0))
andNull ==
    <<"(", "l", "i", "s", "t", " ", "(", "a", "n", "d", " ", "1", " ", "N",
      "U", "L", "L", ")", " ", "(", "a", "n", "d", " ", "1", " ", "0", ")",
      ")">>

\* (list (and 1 ()) (and '() 1))
andEmpty ==
    <<"(", "l", "i", "s", "t", " ", "(", "a", "n", "d", " ", "1", " ", "(",
      ")", ")", " ", "(", "a", "n", "d", " ", "'", "(", ")", " ", "1", ")",
      ")">>

\* (and 1 (rest (list 1)))
andRest ==
    <<"(", "a", "n", "d", " ", "1", " ", "(", "r", "e", "s", "t", " ", "(",
      "l", "i", "s", "t", " ", "1", ")", ")", ")">>

\* (list (or 0 NULL) (or 0 0))
orNull ==
    <<"(", "l", "i", "s", "t", " ", "(", "o", "r", " ", "0", " ", "N", "U",
      "L", "L", ")", " ", "(", "o", "r", " ", "0", " ", "0", ")", ")">>

\* (list (or 0 ()) (or '() 0))
orEmpty ==
    <<"(", "l", "i", "s", "t", " ", "(", "o", "r", " ", "0", " ", "(", ")",
      ")", " ", "(", "o", "r", " ", "'", "(", ")", " ", "0", ")", ")">>

\* (list (and 1 2) (or 0 1))
andOrTrue ==
    <<"(", "l", "i", "s", "t", " ", "(", "a", "n", "d", " ", "1", " ", "2",
      ")", " ", "(", "o", "r", " ", "0", " ", "1", ")", ")">>

\* (list (not 0) (if 0 'a 'b))
truthZero ==
    <<"(", "l", "i", "s", "t", " ", "(", "n", "o", "t", " ", "0", ")", " ",
      "(", "i", "f", " ", "0", " ", "'", "a", " ", "'", "b", ")", ")">>

\* (list (not ()) (if () 'a 'b))
truthEmpty ==
    <<"(", "l", "i", "s", "t", " ", "(", "n", "o", "t", " ", "(", ")", ")",
      " ", "(", "i", "f", " ", "(", ")", " ", "'", "a", " ", "'", "b", ")",
      ")">>

\* (list (not 1) (if 1 'a 'b))
truthOne ==
    <<"(", "l", "i", "s", "t", " ", "(", "n", "o", "t", " ", "1", ")", " ",
      "(", "i", "f", " ", "1", " ", "'", "a", " ", "'", "b", ")", ")">>

\* (list (not 0.0) (if 0.0 'a 'b))
truthFloat ==
    <<"(", "l", "i", "s", "t", " ", "(", "n", "o", "t", " ", "0", ".", "0",
      ")", " ", "(", "i", "f", " ", "0", ".", "0", " ", "'", "a", " ", "'",
      "b", ")", ")">>

\* (list (not 0/1) (if 0/1 'a 'b))
truthFrac ==
    <<"(", "l", "i", "s", "t", " ", "(", "n", "o", "t", " ", "0", "/", "1",
      ")", " ", "(", "i", "f", " ", "0", "/", "1", " ", "'", "a", " ", "'",
      "b", ")", ")">>

\* (list (is? () NULL) (is? '() NULL))
isNullLit ==
    <<"(", "l", "i", "s", "t", " ", "(", "i", "s", "?", " ", "(", ")", " ",
      "N", "U", "L", "L", ")", " ", "(", "i", "s", "?", " ", "'", "(", ")",
      " ", "N", "U", "L", "L", ")", ")">>

\* (is? (rest (list 1)) NULL)
isNullRest ==
    <<"(", "i", "s", "?", " ", "(", "r", "e", "s", "t", " ", "(", "l", "i",
      "s", "t", " ", "1", ")", ")", " ", "N", "U", "L", "L", ")">>

\* (is? (first ()) NULL)
isNullFirst ==
    <<"(", "i", "s", "?", " ", "(", "f", "i", "r", "s", "t", " ", "(", ")",
      ")", " ", "N", "U", "L", "L", ")">>

\* (is? (cond (0 1)) NULL)
isNullCond ==
    <<"(", "i", "s", "?", " ", "(", "c", "o", "n", "d", " ", "(", "0", " ",
      "1", ")", ")", " ", "N", "U", "L", "L", ")">>

\* (list (is? NULL NULL) (is? (if 0 1) NULL))
isNullNull ==
    <<"(", "l", "i", "s", "t", " ", "(", "i", "s", "?", " ", "N", "U", "L",
      "L", " ", "N", "U", "L", "L", ")", " ", "(", "i", "s", "?", " ", "(",
      "i", "f", " ", "0", " ", "1", ")", " ", "N", "U", "L", "L", ")", ")">>

\* (def! 'x (list 1 2))
defXList ==
    <<"(", "d", "e", "f", "!", " ", "'", "x", " ", "(", "l", "i", "s", "t",
      " ", "1", " ", "2", ")", ")">>

\* `(a ,@x b)
spliceX ==
    <<"<bq>", "(", "a", " ", ",", "@", "x", " ", "b", ")">>

\* `(a ,x b)
unquoteX ==
    <<"<bq>", "(", "a", " ", ",", "x", " ", "b", ")">>

\* `(a ,(first 5))
bqErr ==
    <<"<bq>", "(", "a", " ", ",", "(", "f", "i", "r", "s", "t", " ", "5", ")",
      ")">>

\* `(a ,1)
bqOk ==
    <<"<bq>", "(", "a", " ", ",", "1", ")">>

\* ,(list 1)
commaTop ==
    <<",", "(", "l", "i", "s", "t", " ", "1", ")">>

\* ,@(list 1)
commaAtTop ==
    <<",", "@", "(", "l", "i", "s", "t", " ", "1", ")">>

\* `(a ,`(b))
nestedComma ==
    <<"<bq>", "(", "a", " ", ",", "<bq>", "(", "b", ")", ")">>

\* `(a `(b))
nestedDirect ==
    <<"<bq>", "(", "a", " ", "<bq>", "(", "b", ")", ")">>

\* (is? 1 1)
isInt ==
    <<"(", "i", "s", "?", " ", "1", " ", "1", ")">>

\* (is? 1.5 1.5)
isFloat ==
    <<"(", "i", "s", "?", " ", "1", ".", "5", " ", "1", ".", "5", ")">>

\* (is? "a" "a")
isStr ==
    <<"(", "i", "s", "?", " ", "\"", "a", "\"", " ", "\"", "a", "\"", ")">>

\* (is? 1/2 1/2)
isFrac ==
    <<"(", "i", "s", "?", " ", "1", "/", "2", " ", "1", "/", "2", ")">>

\* (is? '(1) '(1))
isList ==
    <<"(", "i", "s", "?", " ", "'", "(", "1", ")", " ", "'", "(", "1", ")",
      ")">>

\* (is? x x)
isSameX ==
    <<"(", "i", "s", "?", " ", "x", " ", "x", ")">>

\* (def! 'h 1/2)
defH ==
    <<"(", "d", "e", "f", "!", " ", "'", "h", " ", "1", "/", "2", ")">>

\* (is? h h)
isSameH ==
    <<"(", "i", "s", "?", " ", "h", " ", "h", ")">>

\* (list (is? 1 2) (is? 1/2 1/3))
isDiff ==
    <<"(", "l", "i", "s", "t", " ", "(", "i", "s", "?", " ", "1", " ", "2",
      ")", " ", "(", "i", "s", "?", " ", "1", "/", "2", " ", "1", "/", "3",
      ")", ")">>

\* (block (def! 'x 1) (defun!! g () x))
defunDynG ==
    <<"(", "b", "l", "o", "c", "k", " ", "(", "d", "e", "f", "!", " ", "'",
      "x", " ", "1", ")", " ", "(", "d", "e", "f", "u", "n", "!", "!", " ",
      "g", " ", "(", ")", " ", "x", ")", ")">>

\* (block (def! 'x 2) (g))
callDynBlock ==
    <<"(", "b", "l", "o", "c", "k", " ", "(", "d", "e", "f", "!", " ", "'",
      "x", " ", "2", ")", " ", "(", "g", ")", ")">>

\* (g)
callDynTop ==
    <<"(", "g", ")">>

\* (defun!! k (x) (g))
defunDynK ==
    <<"(", "d", "e", "f", "u", "n", "!", "!", " ", "k", " ", "(", "x", ")",
      " ", "(", "g", ")", ")">>

\* (k 7)
callDynK ==
    <<"(", "k", " ", "7", ")">>

\* (defun!! h (a) (def! 'z a))
defunDynH ==
    <<"(", "d", "e", "f", "u", "n", "!", "!", " ", "h", " ", "(", "a", ")",
      " ", "(", "d", "e", "f", "!", " ", "'", "z", " ", "a", ")", ")">>

\* (block (h 5) (list z a))
callDynH ==
    <<"(", "b", "l", "o", "c", "k", " ", "(", "h", " ", "5", ")", " ", "(",
      "l", "i", "s", "t", " ", "z", " ", "a", ")", ")">>

\* (def! x 5)
defUnquoted ==
    <<"(", "d", "e", "f", "!", " ", "x", " ", "5", ")">>

\* (set! x 6)
setUnquoted ==
    <<"(", "s", "e", "t", "!", " ", "x", " ", "6", ")">>

\* (def!! x 7)
defGlobalUnquoted ==
    <<"(", "d", "e", "f", "!", "!", " ", "x", " ", "7", ")">>

\* (if (/ 1 0) 1 2)
ifCondErr ==
    <<"(", "i", "f", " ", "(", "/", " ", "1", " ", "0", ")", " ", "1", " ",
      "2", ")">>

\* (if 1 (/ 1 0))
ifThenErr ==
    <<"(", "i", "f", " ", "1", " ", "(", "/", " ", "1", " ", "0", ")", ")">>

\* (if 0 1 (/ 1 0))
ifElseErr ==
    <<"(", "i", "f", " ", "0", " ", "1", " ", "(", "/", " ", "1", " ", "0",
      ")", ")">>

\* (while (/ 1 0) 1)
whileCondErr ==
    <<"(", "w", "h", "i", "l", "e", " ", "(", "/", " ", "1", " ", "0", ")",
      " ", "1", ")">>

\* (while 1 (/ 1 0))
whileBodyErr ==
    <<"(", "w", "h", "i", "l", "e", " ", "1", " ", "(", "/", " ", "1", " ",
      "0", ")", ")">>

\* (if 1 (while (/ 1 0) 1))
ifWhileErr ==
    <<"(", "i", "f", " ", "1", " ", "(", "w", "h", "i", "l", "e", " ", "(",
      "/", " ", "1", " ", "0", ")", " ", "1", ")", ")">>

\* (def! 'n 2)
defN ==
    <<"(", "d", "e", "f", "!", " ", "'", "n", " ", "2", ")">>

\* (while n (set! 'n (- n 1)))
whileCount ==
    <<"(", "w", "h", "i", "l", "e", " ", "n", " ", "(", "s", "e", "t", "!",
      " ", "'", "n", " ", "(", "-", " ", "n", " ", "1", ")", ")", ")">>

\* (/ 1 0)
divByZero ==
    <<"(", "/", " ", "1", " ", "0", ")">>

\* (defun!! f () (push! '(1) 2))
defunLitF ==
    <<"(", "d", "e", "f", "u", "n", "!", "!", " ", "f", " ", "(", ")", " ",
      "(", "p", "u", "s", "h", "!", " ", "'", "(", "1", ")", " ", "2", ")",
      ")">>

\* (f)
callLitF ==
    <<"(", "f", ")">>

Interpreters == {"A", "B"}

\* the families of programs, and the interpreters that run them
Workloads ==
    [macro |-> [users |-> {"A"}, progs |-> {defWhen, when1, when0}],
     two |-> [users |-> {"A", "B"},
              progs |-> {defGlobalX, defLocalX, defunGlobalF, defmacroM}],
     reboot |-> [users |-> {"A"}, progs |-> {defGlobalX, redefPlus, pushNull}],
     block |-> [users |-> {"A"}, progs |-> {blockDef, lookupX, defTopX}],
     call |-> [users |-> {"A"}, progs |-> {defunF, callF3, callF1, callF2}],
     unwind |-> [users |-> {"A"},
                 progs |-> {errBlock, defunG, callG, lookupX, defWhen, when1}],
     self |-> [users |-> {"A"},
              progs |-> {defunGlobalF, evalF, evalFirst}],
     idem |-> [users |-> {"A"},
              progs |-> {defXY, defY5, idemX, idemOne, idemNull}],
     logic |-> [users |-> {"A"},
              progs |-> {andNull, andEmpty, andRest, orNull, orEmpty,
                         andOrTrue}],
     truth |-> [users |-> {"A"},
              progs |-> {truthZero, truthEmpty, truthOne, truthFloat,
                         truthFrac}],
     null |-> [users |-> {"A"},
              progs |-> {isNullLit, isNullRest, isNullFirst, isNullCond,
                         isNullNull}],
     splice |-> [users |-> {"A"},
              progs |-> {defXList, spliceX, unquoteX, defTopX}],
     bq |-> [users |-> {"A"},
              progs |-> {bqErr, bqOk, commaTop, commaAtTop, nestedComma,
                         nestedDirect}],
     is |-> [users |-> {"A"},
              progs |-> {isInt, isFloat, isStr, isFrac, isList, defXList,
                         isSameX, defH, isSameH, isDiff}],
     dyn |-> [users |-> {"A"},
              progs |-> {defunDynG, callDynBlock, callDynTop, defunDynK,
                         callDynK, defunDynH, callDynH}],
     forms |-> [users |-> {"A"},
              progs |-> {defXY, defUnquoted, setUnquoted, defGlobalUnquoted}],
     ctl |-> [users |-> {"A"},
              progs |-> {ifCondErr, ifThenErr, ifElseErr, whileCondErr,
                         whileBodyErr, ifWhileErr, defN, whileCount,
                         divByZero}],
     lit |-> [users |-> {"A"},
              progs |-> {defunLitF, callLitF}]]

-----------------------------------------------------------------------------
(* Specification SpecParse: LypsParser.parse on every short source text.   *)

Alphabet == {"1", "2", "-", "/", ".", "a", "(", ")", " ", "\n"}

ExtraTexts ==
    {<<"(", "a", ")", " ", "b">>, <<"(", "a", ")", " ", "b", " ">>,
     <<"1", "e", "2">>, <<"1", "e", "2", "\n">>, <<"-", "1", "/", "2">>,
     <<"(", "(", ")", ")">>, <<"(", "a", " ", "\"", "a", "\"", " ", "1", "/", "2", ")">>,
     <<"\"", "a", "\"">>, <<"-", "1", "/", "2", " ">>,
     <<"1", "e", "a", " ">>, <<"1", "/", "a", " ">>, <<"-", "1", "/", "a", " ">>}

Texts == UNION {[1..n -> Alphabet] : n \in 0..MaxSrcLen} \cup ExtraTexts

NoParse == [exc |-> "none", msg |-> "", val |-> PyNone]

Idle ==
    [who |-> "", op |-> "idle", prog |-> << >>, exc |-> NoExc, val |-> PyNone,
     out |-> "", scopes |-> << >>]

\* the process after "LypsInterpreter( )" has run once: val is its self._env
Booted == LypsInterpreter(Imported)

SetState(st) ==
    /\ frames' = st.frames
    /\ GLOBAL_SCOPE' = st.GLOBAL_SCOPE
    /\ heap' = st.heap
    /\ LNULL' = st.LNULL
    /\ INSIDE_BACKQUOTE' = st.INSIDE_BACKQUOTE

InitState(st) ==
    /\ frames = st.frames
    /\ GLOBAL_SCOPE = st.GLOBAL_SCOPE
    /\ heap = st.heap
    /\ LNULL = st.LNULL
    /\ INSIDE_BACKQUOTE = st.INSIDE_BACKQUOTE

InitParse ==
    /\ src \in Texts
    /\ pres = NoParse
    /\ ppc = "start"
    /\ InitState(Imported)
    /\ interps = [i \in Interpreters |-> 0]
    /\ last = Idle
    /\ nOps = 0
    /\ workload = "parse"
    /\ cur = 0
    /\ operands = << >>

Parse ==
    /\ ppc = "start"
    /\ pres' = parse(src)
    /\ ppc' = "done"
    /\ UNCHANGED <<src, frames, GLOBAL_SCOPE, interps, heap, LNULL, INSIDE_BACKQUOTE,
                   last, nOps, workload, cur, operands>>

\* the characters of the texts that are read and printed here
TextChars == Alphabet \cup {"A", "N", "U", "L", "\""}

\* the characters of the Python string s
StrChars(s) == CHOOSE cs \in [1..Len(s) -> TextChars] : Cat(cs) = s

\* repr of an int
RECURSIVE NatChars(_)
NatChars(n) ==
    IF n < 10 THEN <<ToString(n)>> ELSE NatChars(n \div 10) \o <<ToString(n % 10)>>

IntChars(i) == IF i < 0 THEN <<"-">> \o NatChars(0 - i) ELSE NatChars(i)

\* ' '.join( mbrList )
RECURSIVE JoinChars(_)
JoinChars(texts) ==
    IF texts = << >> THEN << >>
    ELSE IF Len(texts) = 1 THEN texts[1]
    ELSE texts[1] \o <<" ">> \o JoinChars(Tail(texts))

\* prettyPrintLypsExpr on a value of the reader, character by character
RECURSIVE PrettyChars(_)
PrettyChars(lypsExpr) ==
    CASE lypsExpr.k = "str" -> <<"\"">> \o StrChars(lypsExpr.v) \o <<"\"">>
      [] lypsExpr.k = "frac" ->
            IntChars(lypsExpr.n) \o <<"/">> \o IntChars(lypsExpr.d)
      [] lypsExpr.k = "int" -> IntChars(lypsExpr.v)
      [] lypsExpr.k = "sym" -> StrChars(lypsExpr.v)
      [] lypsExpr.k = "None" -> <<"N", "o", "n", "e">>
      [] lypsExpr.k = "llist" ->
            IF Len(lypsExpr.elts) = 0 THEN <<"N", "U", "L", "L">>
            ELSE <<"(">>
                 \o JoinChars([i \in 1..Len(lypsExpr.elts) |->
                                  PrettyChars(lypsExpr.elts[i])])
                 \o <<")">>

\* the values whose text PrettyChars follows: no float in them
RECURSIVE Printable(_)
Printable(v) ==
    IF v.k = "llist" THEN \A i \in 1..Len(v.elts) : Printable(v.elts[i])
    ELSE v.k # "float"

\* the value that was read is printed, and its text is what is read next
PrettyPrint ==
    /\ ppc = "done"
    /\ pres.exc = "none"
    /\ Printable(pres.val)
    /\ src' = PrettyChars(pres.val)
    /\ last' = [Idle EXCEPT !.op = "pprint", !.val = pres.val]
    /\ ppc' = "start"
    /\ UNCHANGED <<pres, frames, GLOBAL_SCOPE, interps, heap, LNULL,
                   INSIDE_BACKQUOTE, nOps, workload, cur, operands>>

NextParse == Parse \/ PrettyPrint

SpecParse == InitParse /\ [][NextParse]_vars

-----------------------------------------------------------------------------
(* Specification Spec: interpreters that are constructed, evaluate the     *)
(* programs of a workload and reboot.                                      *)

Init ==
    /\ workload \in DOMAIN Workloads
    /\ InitState(Booted.st)
    /\ interps = [i \in Interpreters |-> IF i = "A" THEN Booted.val ELSE 0]
    /\ last = Idle
    /\ nOps = 0
    /\ src = << >>
    /\ pres = NoParse
    /\ ppc = "idle"
    /\ cur = 0
    /\ operands = << >>

\* "self._env = ...": r is what the constructor or reboot gave
SetEnv(i, r) ==
    /\ SetState(r.st)
    /\ interps' = [interps EXCEPT ![i] = r.val]

\* "LypsInterpreter( )" a second time in the same process
New(i) ==
    /\ nOps < MaxOps
    /\ i \in Workloads[workload].users
    /\ interps[i] = 0
    /\ SetEnv(i, LypsInterpreter(State))
    /\ last' = [Idle EXCEPT !.who = i, !.op = "new"]
    /\ nOps' = nOps + 1
    /\ UNCHANGED <<src, pres, ppc, workload, cur, operands>>

\* what eval leaves behind, r being its outcome.  The scopes the evaluation
\* opened are unreachable once it has returned or raised (no object keeps a
\* reference to a SymbolTable); last.scopes keeps what they held at that moment.
Evaluated(i, inputExprStr, r) ==
    /\ SetState([r.st EXCEPT !.frames = SubSeq(@, 1, Len(frames))])
    /\ last' = [who |-> i, op |-> "eval", prog |-> inputExprStr, exc |-> r.exc,
                val |-> r.val, out |-> r.out,
                scopes |-> SubSeq(r.st.frames, Len(frames) + 1, Len(r.st.frames))]

\* interpreter i evaluates inputExprStr
Eval(i, inputExprStr) ==
    /\ nOps < MaxOps
    /\ i \in Workloads[workload].users
    /\ interps[i] # 0
    /\ Evaluated(i, inputExprStr, eval(State, interps[i], inputExprStr))
    /\ nOps' = nOps + 1
    /\ UNCHANGED <<src, pres, ppc, interps, workload, cur, operands>>

Reboot(i) ==
    /\ nOps < MaxOps
    /\ i \in Workloads[workload].users
    /\ interps[i] # 0
    /\ SetEnv(i, reboot(State, interps[i]))
    /\ last' = [Idle EXCEPT !.who = i, !.op = "reboot"]
    /\ nOps' = nOps + 1
    /\ UNCHANGED <<src, pres, ppc, workload, cur, operands>>

Next ==
    \/ \E i \in Interpreters : New(i)
    \/ \E i \in Interpreters : \E p \in Workloads[workload].progs : Eval(i, p)
    \/ \E i \in Interpreters : Reboot(i)

Spec == Init /\ [][Next]_vars

-----------------------------------------------------------------------------
(* Specification SpecArith: the arithmetic primitives on evaluated         *)
(* arguments.                                                              *)

Operands ==
    {IntV(i) : i \in (0 - MaxNum)..MaxNum}
        \cup {Fraction(1, 2), Fraction(0 - 1, 2), Fraction(1, 3), Fraction(5, 2)}
        \cup {Float(1, 2)}

ArithNames == {"+", "-", "*", "/"}

InitArith ==
    /\ operands \in [1..1 -> Operands] \cup [1..2 -> Operands]
    /\ InitState(Booted.st)
    /\ interps = [i \in Interpreters |-> IF i = "A" THEN Booted.val ELSE 0]
    /\ cur = Booted.val
    /\ last = Idle
    /\ nOps = 0
    /\ workload = "arith"
    /\ src = << >>
    /\ pres = NoParse
    /\ ppc = "idle"

\* the call "fnDef( _lEval, env, *evaluatedArgs )" of the primitive bound to name
Applied(name, r) ==
    /\ SetState(r.st)
    /\ last' = [Idle EXCEPT !.op = name, !.exc = r.exc, !.val = r.val]

Apply(name) ==
    /\ last.op = "idle"
    /\ Applied(name, CallPrimitive(State, cur, frames[cur].locals[name], operands))
    /\ nOps' = nOps + 1
    /\ UNCHANGED <<src, pres, ppc, interps, workload, cur, operands>>

NextArith == \E name \in ArithNames : Apply(name)

SpecArith == InitArith /\ [][NextArith]_vars

-----------------------------------------------------------------------------
(* Specification SpecEnv: the symbol primitives called in a chain of       *)
(* scopes, as LP_block opens and leaves them.                              *)

Keys == {"X", "Y"}
Vals == {IntV(1), IntV(2)}

RECURSIVE Depth(_, _)
Depth(fs, f) == IF fs[f].parent = 0 THEN 0 ELSE 1 + Depth(fs, fs[f].parent)

InitEnv ==
    /\ InitState(Booted.st)
    /\ interps = [i \in Interpreters |-> IF i = "A" THEN Booted.val ELSE 0]
    /\ cur = Booted.val
    /\ last = [op |-> "idle", key |-> "", val |-> PyNone, exc |-> NoExc,
               res |-> PyNone]
    /\ nOps = 0
    /\ workload = "env"
    /\ src = << >>
    /\ pres = NoParse
    /\ ppc = "idle"
    /\ operands = << >>

\* LP_block: "env = env.openScope( )"
BlockEnter ==
    /\ Depth(frames, cur) < MaxDepth
    /\ SetState(openScope(State, cur).st)
    /\ cur' = openScope(State, cur).val
    /\ last' = [op |-> "openScope", key |-> "", val |-> PyNone, exc |-> NoExc,
                res |-> PyNone]
    /\ UNCHANGED <<src, pres, ppc, interps, nOps, workload, operands>>

\* LP_block: "env = env.closeScope( )" and the return to the caller, after
\* which the scope is unreachable
BlockExit ==
    /\ frames[cur].parent # 0
    /\ cur' = closeScope(State, cur)
    /\ frames' = SubSeq(frames, 1, Len(frames) - 1)
    /\ last' = [op |-> "closeScope", key |-> "", val |-> PyNone, exc |-> NoExc,
                res |-> PyNone]
    /\ UNCHANGED <<src, pres, ppc, GLOBAL_SCOPE, interps, heap, LNULL,
                   INSIDE_BACKQUOTE, nOps, workload, operands>>

\* the primitive bound to name, called in cur on the evaluated arguments
\* of (name 'key val); res is what it returned
Called(name, key, val, r) ==
    /\ SetState(r.st)
    /\ last' = [op |-> name, key |-> key, val |-> val, exc |-> r.exc,
                res |-> r.val]

SymbolPrim(name, key, val, args) ==
    /\ Called(name, key, val,
              CallPrimitive(State, cur, frames[GLOBAL_SCOPE].locals[name], args))
    /\ UNCHANGED <<src, pres, ppc, interps, nOps, workload, cur, operands>>

Def(key, val) == SymbolPrim("DEF!", key, val, <<LSymbol(key), val>>)

Set(key, val) == SymbolPrim("SET!", key, val, <<LSymbol(key), val>>)

\* UNDEF!, called in cur on the evaluated argument of (undef! 'key)
Undef(key) == SymbolPrim("UNDEF!", key, PyNone, <<LSymbol(key)>>)

DefGlobal(key, val) == SymbolPrim("DEF!!", key, val, <<LSymbol(key), val>>)

\* EVAL, called in cur on the evaluated argument of (eval 'key): the symbol
\* key is looked up in cur
LookUp(key) == SymbolPrim("EVAL", key, PyNone, <<LSymbol(key)>>)

NextEnv ==
    \/ BlockEnter
    \/ BlockExit
    \/ \E key \in Keys : \E val \in Vals : Def(key, val)
    \/ \E key \in Keys : \E val \in Vals : DefGlobal(key, val)
    \/ \E key \in Keys : \E val \in Vals : Set(key, val)
    \/ \E key \in Keys : Undef(key)
    \/ \E key \in Keys : LookUp(key)

SpecEnv == InitEnv /\ [][NextEnv]_vars

-----------------------------------------------------------------------------
(* Specification SpecPrim: one primitive called on evaluated arguments     *)
(* whose number and kinds vary, lists of the heap among them.              *)

\* most arguments handed to a primitive
MaxArgs == 3

\* the lists that exist before the call: (), (1) and (A (1))
EmptyL == NewLList(Booted.st, << >>)
OneL == NewLList(EmptyL.st, <<IntV(1)>>)
TwoL == NewLList(OneL.st, <<LSymbol("A"), OneL.val>>)

ArgValues ==
    {IntV(1), LSymbol("A"), Booted.st.LNULL, EmptyL.val, OneL.val, TwoL.val}

\* the primitives CallPrimitive follows
PrimNames ==
    {"DEF!", "DEF!!", "DEFUN!", "DEFUN!!", "DEFMACRO!!", "SET!", "UNDEF!", "LAM",
     "BLOCK", "IF", "QUOTE", "BACKQUOTE", "COMMA", "COMMA-AT", "EVAL", "LIST",
     "FIRST", "REST", "CONS", "PUSH!", "NOT", "AND", "OR", "IS?", "COND",
     "+", "-", "*", "/"}

InitPrim ==
    /\ operands \in UNION {[1..n -> ArgValues] : n \in 0..MaxArgs}
    /\ InitState(TwoL.st)
    /\ interps = [i \in Interpreters |-> IF i = "A" THEN Booted.val ELSE 0]
    /\ cur = Booted.val
    /\ last = Idle
    /\ nOps = 0
    /\ workload = "prim"
    /\ src = << >>
    /\ pres = NoParse
    /\ ppc = "idle"

\* the call "fnDef( _lEval, env, *evaluatedArgs )" of the primitive bound to name
ApplyPrim(name) ==
    /\ last.op = "idle"
    /\ Applied(name, CallPrimitive(State, cur, frames[cur].locals[name], operands))
    /\ nOps' = nOps + 1
    /\ UNCHANGED <<src, pres, ppc, interps, workload, cur, operands>>

NextPrim == \E name \in PrimNames : ApplyPrim(name)

SpecPrim == InitPrim /\ [][NextPrim]_vars

\* no behaviour leaves the part of the code that is modelled
Modelled == last.exc.type # "Unmodelled"

-----------------------------------------------------------------------------
(* The claims.                                                             *)

\* C1: a call of a macro defined with defmacro!! succeeds and yields the value
\* of its expansion: once WHEN is the macro of (defmacro!! when (c b)
\* <bq>(if ,c ,b NULL)), (when 1 42) yields 42 and (when 0 42) yields NULL.
C1_MacroCallYieldsExpansionValue ==
    (/\ last.op = "eval"
     /\ last.prog \in {when1, when0}
     /\ getValue(State, interps[last.who], "WHEN").k = "macro")
    => (/\ last.exc = NoExc
        /\ last.out = IF last.prog = when1 THEN "42" ELSE "NULL")

\* C2: (/ a b) on integers a and b, b not 0 and not a divisor of a, yields
\* the exact rational a/b, and no arithmetic primitive given only integers
\* and rationals returns a float.
C2_IntegerDivisionIsExact ==
    /\ (/\ last.op = "/"
        /\ Len(operands) = 2
        /\ operands[1].k = "int" /\ operands[2].k = "int"
        /\ operands[2].v # 0
        /\ operands[1].v % Abs(operands[2].v) # 0)
       => (/\ last.exc = NoExc
           /\ last.val = Fraction(operands[1].v, operands[2].v))
    /\ (/\ last.op \in ArithNames
        /\ \A i \in DOMAIN operands : operands[i].k \in {"int", "frac"}
        /\ last.exc = NoExc)
       => last.val.k # "float"

\* text is one number or symbol lexeme: it holds no whitespace, and followed
\* by a newline it reads as one integer, rational, float or symbol
OneLexeme(text) ==
    /\ text # << >>
    /\ \A i \in DOMAIN text : text[i] \notin WHITESPACE
    /\ parse(text \o <<"\n">>).exc = "none"
    /\ parse(text \o <<"\n">>).val.k \in {"int", "frac", "float", "sym"}

\* C3: a source text that is one integer, rational, float or symbol lexeme
\* with the end of input directly after it reads as the same value as the
\* lexeme followed by a newline.
C3_LexemeAtEndOfInput ==
    (ppc = "done" /\ OneLexeme(src)) => pres = parse(src \o <<"\n">>)

\* a further token follows the first complete expression of text: read with
\* a blank after it, the reader finds a token where it requires EOF
FurtherTokenFollows(text) ==
    /\ parse(text \o <<" ">>).exc = "ParseError"
    /\ parse(text \o <<" ">>).msg = "EOF Expected."

\* C4: parse raises a ParseError on every source text in which a further token
\* follows the first complete expression, with or without trailing
\* whitespace.
C4_TrailingTokenIsRejected ==
    (ppc = "done" /\ FurtherTokenFollows(src)) => pres.exc = "ParseError"

\* the names looked up in an interpreter: the factory names and the names
\* the programs define
Names == PrimitiveNames \cup ConstantNames \cup {"X", "F", "M"}

\* what the lookup of name n in interpreter i returns, as it prints
Lookup(i, n) == prettyPrintLypsExpr(State, getValue(State, interps[i], n))

\* C5: no eval or reboot on interpreter B changes the value that a symbol
\* lookup in interpreter A returns.
C5_InterpretersAreIndependent ==
    [][(/\ last'.who = "B"
        /\ last'.op \in {"eval", "reboot"}
        /\ nOps' = nOps + 1)
       => \A n \in Names : Lookup("A", n)' = Lookup("A", n)]_vars

\* the values an object of the heap holds
Held(obj) ==
    IF obj.k = "LList" THEN {obj.list[i] : i \in DOMAIN obj.list}
    ELSE IF obj.k = "Fraction" THEN {}
    ELSE {obj.params} \cup {obj.body.elts[i] : i \in DOMAIN obj.body.elts}

\* v is the list l or a primitive made by the g-th constructPrimitives
MadeBy(v, l, g) == v = l \/ (v.k = "prim" /\ v.gen = g)

\* nothing but the frame root refers to the list l or to a primitive of the
\* g-th constructPrimitives
FreshIn(root, l, g) ==
    /\ \A f \in DOMAIN frames \ {root} : \A n \in DOMAIN frames[f].locals :
           ~MadeBy(frames[f].locals[n], l, g)
    /\ \A o \in DOMAIN heap : \A v \in Held(heap[o]) : ~MadeBy(v, l, g)

\* C6: after reboot the global frame binds exactly the factory names, each to
\* a value built by that reboot (new primitives, a new empty NULL), whatever
\* definitions, redefinitions of primitive names and mutations came before.
C6_RebootRestoresFactoryGlobals ==
    last.op = "reboot" =>
        LET root == interps[last.who]
            g == Len(INSIDE_BACKQUOTE)
        IN  /\ frames[root].parent = 0
            /\ DOMAIN frames[root].locals = PrimitiveNames \cup ConstantNames
            /\ frames[root].locals = primitiveDict(g, LNULL)
            /\ _list(State, LNULL) = << >>
            /\ ~INSIDE_BACKQUOTE[g]
            /\ FreshIn(root, LNULL, g)

\* a reboot that follows the redefinition of + and a push! onto NULL
C6_Witness ==
    /\ workload = "reboot"
    /\ last.op = "reboot"
    /\ \E o \in DOMAIN heap : heap[o] = LListObj(<<IntV(1)>>)
    /\ \E o \in DOMAIN heap :
          heap[o].k = "LList" /\ Len(heap[o].list) = 3 /\ heap[o].list[1] = LSymbol("DEF!!")
    /\ frames[interps["A"]].locals["+"] = LPrimitive("+", Len(INSIDE_BACKQUOTE))

\* C7: a def! inside a block binds in that block's own frame only: the inner x
\* of (block (def! 'x 10) (block (def! 'x 20) x)) is 20 whatever the outer
\* frames bind, the frames that enclose the block are left as they were, and a
\* top-level x that no frame binds evaluates to the symbol X.
C7_BlockDefIsLocal ==
    [][/\ (last'.op = "eval" /\ last'.prog = blockDef /\ nOps' = nOps + 1)
          => (/\ last'.exc = NoExc
              /\ last'.out = "20"
              /\ Len(last'.scopes) = 2
              /\ last'.scopes[1] =
                    [parent |-> interps[last'.who], locals |-> ("X" :> IntV(10))]
              /\ last'.scopes[2] =
                    [parent |-> Len(frames) + 1, locals |-> ("X" :> IntV(20))]
              /\ frames' = frames)
       /\ (/\ last'.op = "eval" /\ last'.prog = lookupX /\ nOps' = nOps + 1
           /\ "X" \notin DOMAIN frames[interps[last'.who]].locals)
          => (last'.exc = NoExc /\ last'.out = "X")]_vars

\* the block has run where the global frame binds x to 5: the inner x is 20
\* and the global x is still 5
C7_Witness ==
    /\ last.op = "eval"
    /\ last.prog = blockDef
    /\ last.out = "20"
    /\ "X" \in DOMAIN frames[interps["A"]].locals
    /\ frames[interps["A"]].locals["X"] = IntV(5)

\* the evaluated arguments of the calls of f
CallArgs ==
    (callF3 :> <<IntV(1), IntV(2), IntV(3)>>) @@ (callF1 :> <<IntV(1)>>)
        @@ (callF2 :> <<IntV(2), IntV(2)>>)

\* C8: a call of a user function binds the i-th parameter to the i-th
\* evaluated argument in a new frame, ignores the arguments beyond the
\* parameters, leaves the parameters without an argument unbound, and returns
\* the value of the last body expression (for f, the list of a and b).
C8_CallBindsPositionally ==
    (/\ last.op = "eval"
     /\ last.prog \in DOMAIN CallArgs
     /\ getValue(State, interps[last.who], "F").k = "fn")
    => LET f == heap[getValue(State, interps[last.who], "F").id]
           params == [i \in DOMAIN _list(State, f.params) |-> _list(State, f.params)[i].v]
           args == CallArgs[last.prog]
           n == IF Len(params) < Len(args) THEN Len(params) ELSE Len(args)
           Seen(i) == IF i <= n THEN ToString(args[i].v) ELSE params[i]
       IN  /\ last.exc = NoExc
           /\ Len(last.scopes) = 1
           /\ last.scopes[1].parent = interps[last.who]
           /\ DOMAIN last.scopes[1].locals = {params[i] : i \in 1..n}
           /\ \A i \in 1..n : last.scopes[1].locals[params[i]] = args[i]
           /\ last.out = "(" \o Seen(1) \o " " \o Seen(2) \o ")"

\* (f 1 2 3) has returned (1 2): the third argument was ignored
C8_Witness ==
    /\ last.op = "eval"
    /\ last.prog = callF3
    /\ last.out = "(1 2)"
    /\ Len(last.scopes) = 1

\* the programs that raise after a (def! 'x ...) made inside the scope of a
\* block or of a function call
DefInFailedScope == {errBlock, callG}

\* C9: when an evaluation raises inside a function call, a block or a macro
\* expansion, the interpreter's environment is still its global frame, the
\* names the failed scopes bound look up there as they did before, and so
\* does the x of a def! made inside the failed scope.
C9_ScopesReleasedOnError ==
    [][\A who \in Interpreters :
          (/\ last'.op = "eval"
           /\ last'.who = who
           /\ nOps' = nOps + 1
           /\ last'.exc.type # "none"
           /\ last'.scopes # << >>)
          => (/\ interps' = interps
              /\ frames'[interps'[who]].parent = 0
              /\ \A i \in DOMAIN last'.scopes : \A n \in DOMAIN last'.scopes[i].locals :
                    getValue(State, interps[who], n)' = getValue(State, interps[who], n)
              /\ last'.prog \in DefInFailedScope
                    => getValue(State, interps[who], "X")' = getValue(State, interps[who], "X"))]_vars

\* (g 1) has raised inside the call, after a and x were bound in its frame
C9_Witness ==
    /\ last.op = "eval"
    /\ last.prog = callG
    /\ last.exc.type = "LypsRuntimeFuncError"
    /\ Len(last.scopes) = 1
    /\ last.scopes[1].locals = ("A" :> IntV(1)) @@ ("X" :> IntV(1))
    /\ getValue(State, interps["A"], "X") = PyNone

\* the frames from f outward
RECURSIVE Chain(_, _)
Chain(fs, f) == IF f = 0 THEN {} ELSE {f} \cup Chain(fs, fs[f].parent)

\* C10: (set! 's v) rebinds s in the innermost frame of the current chain that
\* binds s, or defines it in the current frame when none does; no other frame
\* and no other name changes.
C10_SetChangesOneBinding ==
    [][\A key \in Keys : \A val \in Vals :
          Set(key, val) =>
             LET binders == {f \in Chain(frames, cur) : key \in DOMAIN frames[f].locals}
                 target == IF binders = {} THEN cur
                           ELSE CHOOSE f \in binders :
                                   \A g \in binders : Depth(frames, g) <= Depth(frames, f)
             IN  /\ last'.exc = NoExc
                 /\ DOMAIN frames' = DOMAIN frames
                 /\ \A f \in DOMAIN frames \ {target} : frames'[f] = frames[f]
                 /\ frames'[target].parent = frames[target].parent
                 /\ DOMAIN frames'[target].locals = DOMAIN frames[target].locals \cup {key}
                 /\ frames'[target].locals[key] = val
                 /\ \A n \in DOMAIN frames[target].locals \ {key} :
                       frames'[target].locals[n] = frames[target].locals[n]
                 /\ cur' = cur]_vars

\* set! has rebound X in the global frame from a scope nested two deep, where
\* no nearer frame binds X
C10_Witness ==
    /\ last.op = "SET!"
    /\ last.key = "X"
    /\ Depth(frames, cur) = 2
    /\ "X" \notin DOMAIN frames[cur].locals
    /\ "X" \notin DOMAIN frames[frames[cur].parent].locals
    /\ "X" \in DOMAIN frames[GLOBAL_SCOPE].locals
    /\ frames[GLOBAL_SCOPE].locals["X"] = last.val

\* C11: (undef! 's) removes the innermost binding of s in the current chain:
\* a following lookup of s finds the next outer binding, or none.
C11_UndefRemovesInnermostBinding ==
    [][\A key \in Keys :
          (Undef(key) /\ findDef(State, cur, key) # 0) =>
             LET target == findDef(State, cur, key) IN
             /\ last'.exc = NoExc
             /\ key \notin DOMAIN frames'[target].locals
             /\ getValue(State, cur, key)'
                   = getValue(State, frames[target].parent, key)]_vars

\* C12: evaluating a value that is already a function or a primitive gives
\* back that value: (eval f) yields the function bound to f and (eval first)
\* the primitive bound to first, neither called nor refused.
C12_CallableEvaluatesToItself ==
    \A c \in {[prog |-> evalF, name |-> "F"], [prog |-> evalFirst, name |-> "FIRST"]} :
       (/\ last.op = "eval"
        /\ last.prog = c.prog
        /\ getValue(State, interps[last.who], c.name).k \in {"fn", "macro", "prim"})
       => (/\ last.exc = NoExc
           /\ last.val = getValue(State, interps[last.who], c.name))

\* the programs (list (eval v) (eval (eval v))) for a v that is not a
\* combination
IdemProgs == {idemX, idemOne, idemNull}

\* C13: evaluation is idempotent on what is not a combination: for a symbol,
\* an atom or the empty list v, evaluating the value of v gives the value of v.
C13_EvalIsIdempotent ==
    (last.op = "eval" /\ last.prog \in IdemProgs)
    => (/\ last.exc = NoExc
        /\ PyEq(State, _list(State, last.val)[1], _list(State, last.val)[2]))

\* C14: and returns 0 when some argument is an empty list or the integer 0,
\* or returns 0 when every argument is one, however the empty list was made
\* (NULL, (), '() or the rest of a one-element list); both return 1 otherwise.
C14_AndOrUseTruthiness ==
    last.op = "eval" =>
       /\ last.prog \in {andNull, andEmpty, orNull, orEmpty} => last.out = "(0 0)"
       /\ last.prog = andRest => last.out = "0"
       /\ last.prog = andOrTrue => last.out = "(1 1)"

\* C15: (not v) is 1 exactly when (if v 'a 'b) yields B, which is exactly
\* when v is the empty list or the integer 0: a float or a rational that is
\* numerically zero is true for both.
C15_NotAgreesWithIf ==
    last.op = "eval" =>
       /\ last.prog \in {truthZero, truthEmpty} => last.out = "(1 B)"
       /\ last.prog \in {truthOne, truthFloat, truthFrac} => last.out = "(0 A)"

\* C16: there is one empty list: an evaluation that yields an empty list
\* yields the list NULL is bound to, and (is? e NULL) is 1 for an e that is
\* (), '(), the rest of a one-element list, the first of an empty list or a
\* cond with no true test.
C16_OneEmptyList ==
    last.op = "eval" =>
       /\ (/\ last.exc = NoExc
           /\ last.val.k = "list"
           /\ _list(State, last.val) = << >>)
          => last.val = getValue(State, interps[last.who], "NULL")
       /\ last.prog \in {isNullLit, isNullNull} => last.out = "(1 1)"
       /\ last.prog \in {isNullRest, isNullFirst, isNullCond} => last.out = "1"

\* C17: in `(a ,@x b) the elements of the list x is bound to are inlined:
\* the expansion has Len(x) + 2 elements, while in `(a ,x b) the value of x
\* is one element of three.
C17_CommaAtInlinesElements ==
    (/\ last.op = "eval"
     /\ getValue(State, interps[last.who], "X").k = "list")
    => LET x == _list(State, getValue(State, interps[last.who], "X")) IN
       /\ last.prog = spliceX =>
             /\ last.exc = NoExc
             /\ last.val.k = "list"
             /\ Len(_list(State, last.val)) = Len(x) + 2
       /\ last.prog = unquoteX =>
             /\ last.exc = NoExc
             /\ last.val.k = "list"
             /\ Len(_list(State, last.val)) = 3

\* C18: no backquote expansion is in progress between two evaluations,
\* whether the last expansion returned or raised, and a comma or comma-at
\* form evaluated there raises a runtime error.
C18_CommaOutsideBackquoteRaises ==
    /\ \A gen \in DOMAIN INSIDE_BACKQUOTE : ~INSIDE_BACKQUOTE[gen]
    /\ (last.op = "eval" /\ last.prog \in {commaTop, commaAtTop})
       => (/\ last.exc.type = "LypsRuntimeFuncError"
           /\ last.exc.name = "COMMA")

\* ,(list 1) has raised after `(a ,(first 5)) had failed inside its
\* expansion: the heap still holds the (first 5) that was read
C18_Witness ==
    /\ last.op = "eval"
    /\ last.prog = commaTop
    /\ last.exc = LypsRuntimeFuncError("COMMA", "COMMA can only occur inside a BACKQUOTE.")
    /\ \E id \in DOMAIN heap :
          heap[id] = LListObj(<<LSymbol("FIRST"), IntV(5)>>)

\* C19: a backquote form whose argument holds a second backquote form,
\* directly in the quoted list or under a comma, raises.
C19_NestedBackquoteRaises ==
    (last.op = "eval" /\ last.prog \in {nestedComma, nestedDirect})
    => last.exc.type \in {"LypsRuntimeError", "LypsRuntimeFuncError"}

\* the values the round trip is about: integers, rationals, strings,
\* symbols and the lists of them
RECURSIVE Readable(_)
Readable(v) ==
    IF v.k = "llist" THEN \A i \in 1..Len(v.elts) : Readable(v.elts[i])
    ELSE v.k \in {"int", "frac", "str", "sym"}

\* C20: reading the text that the pretty-printer prints for a value the
\* reader produced gives a value equal to it.
C20_ReadPrintRoundTrip ==
    (ppc = "done" /\ last.op = "pprint" /\ Readable(last.val))
    => (pres.exc = "none" /\ pres.val = last.val)

\* what (rest v) returns in the state reached
RestOf(v) == LP_rest(State, cur, <<v>>)

\* C21: (cons x L) of a value x and a list L, the empty list included, returns
\* a list that did not exist before and leaves L and every other list as it
\* was; first of the result is x, and rest of the result equals L.
C21_ConsBuildsNewList ==
    (last.op = "CONS" /\ Len(operands) = 2 /\ operands[2].k = "list")
    => (/\ last.exc = NoExc
        /\ last.val.k = "list"
        /\ last.val.id \notin DOMAIN TwoL.st.heap
        /\ \A id \in DOMAIN TwoL.st.heap : heap[id] = TwoL.st.heap[id]
        /\ LP_first(State, cur, <<last.val>>).val = operands[1]
        /\ ~Failed(RestOf(last.val))
        /\ PyEq(RestOf(last.val).st, RestOf(last.val).val, operands[2]))

\* a list has been consed onto the empty list, and another onto (A (1))
C21_Witness ==
    /\ last.op = "CONS"
    /\ last.exc = NoExc
    /\ operands \in {<<OneL.val, EmptyL.val>>, <<LSymbol("A"), TwoL.val>>}
    /\ Len(heap[last.val.id].list) = Len(heap[operands[2].id].list) + 1

\* the atoms of C22, each compared with a second literal of its value
IsAtomProgs == {isInt, isFloat, isStr, isFrac}

\* C22: is? compares atoms by value: two separate literals of one integer,
\* rational, float or string give 1, and two atoms of different values give
\* 0; two lists give 1 only when they are one object.
C22_IsComparesAtomsByValue ==
    (last.op = "eval" /\ workload = "is")
    => (/\ last.prog \in IsAtomProgs => (last.exc = NoExc /\ last.out = "1")
        /\ last.prog = isDiff => (last.exc = NoExc /\ last.out = "(0 0)")
        /\ last.prog = isList => (last.exc = NoExc /\ last.out = "0")
        /\ (last.prog = isSameX /\ getValue(State, interps["A"], "X").k = "list")
              => (last.exc = NoExc /\ last.out = "1"))

\* the numbers of arguments a primitive documents, in its usage and in the
\* message of its arity error
DocumentedArity(name, n) ==
    CASE name \in {"DEFUN!", "DEFUN!!", "DEFMACRO!!"} -> n >= 3
      [] name \in {"DEF!", "DEF!!", "SET!", "CONS", "PUSH!", "IS?"} -> n = 2
      [] name \in {"UNDEF!", "QUOTE", "BACKQUOTE", "COMMA", "COMMA-AT", "EVAL",
                   "FIRST", "REST", "NOT"} -> n = 1
      [] name = "IF" -> n \in {2, 3}
      [] name \in {"AND", "OR", "*", "/"} -> n >= 2
      [] OTHER -> n >= 1

\* C23: a primitive called with a number of arguments outside the arity it
\* documents raises a LypsRuntimeFuncError that names that primitive and so
\* carries its usage string.
C23_ArityViolationRaisesFuncError ==
    (last.op \in PrimNames /\ ~DocumentedArity(last.op, Len(operands)))
    => (/\ last.exc.type = "LypsRuntimeFuncError"
        /\ last.exc.name = last.op
        /\ PrimitiveInfo(last.exc.name).usage # "")

\* the frames of the chain of f that bind key
Binders(fs, f, key) == {g \in Chain(fs, f) : key \in DOMAIN fs[g].locals}

\* the innermost of a non-empty set of frames of one chain
Innermost(fs, binders) ==
    CHOOSE f \in binders : \A g \in binders : Depth(fs, g) <= Depth(fs, f)

\* C24: whatever scopes were opened and closed and whatever def!, def!!, set!
\* and undef! did before, looking a name up gives the value of the innermost
\* frame of the current chain that binds it, and gives the symbol itself when
\* no frame of the chain binds it; a def! changes no frame but the current one,
\* so the outer binding it shadows stays.
C24_LookupFindsInnermostBinding ==
    [][\A key \in Keys :
          /\ LookUp(key) =>
                /\ last'.exc = NoExc
                /\ last'.res =
                      IF Binders(frames, cur, key) = {} THEN LSymbol(key)
                      ELSE frames[Innermost(frames, Binders(frames, cur, key))].locals[key]
                /\ frames' = frames
          /\ \A val \in Vals :
                Def(key, val) =>
                   \A f \in DOMAIN frames \ {cur} : frames'[f] = frames[f]]_vars

\* X has been looked up in a nested scope that binds it to another value than
\* the global frame does, and the lookup has given the value of the nested scope
C24_Witness ==
    /\ last.op = "EVAL"
    /\ last.key = "X"
    /\ Depth(frames, cur) >= 1
    /\ "X" \in DOMAIN frames[cur].locals
    /\ "X" \in DOMAIN frames[GLOBAL_SCOPE].locals
    /\ frames[cur].locals["X"] # frames[GLOBAL_SCOPE].locals["X"]
    /\ last.res = frames[cur].locals["X"]

\* the value bound to name in the global frame of interpreter A is a function
IsFn(name) == getValue(State, interps["A"], name).k = "fn"

\* C25: a call of a user function evaluates the body in a new frame whose
\* parent is the frame of the caller, not the frame of the definition: g,
\* defined inside a block that binds x to 1, returns the x of the block or of
\* the function that calls it, and the symbol X when no caller binds x; what
\* the body of h defines is not visible to the caller after the return.
C25_CallOpensScopeInCallersFrame ==
    (last.op = "eval" /\ workload = "dyn")
    => (/\ (last.prog = callDynBlock /\ IsFn("G"))
              => (/\ last.exc = NoExc
                  /\ last.out = "2"
                  /\ Len(last.scopes) = 2
                  /\ last.scopes[1].parent = interps["A"]
                  /\ last.scopes[2].parent = Len(frames) + 1
                  /\ last.scopes[2].locals = [n \in {} |-> PyNone])
        /\ (last.prog = callDynTop /\ IsFn("G"))
              => (/\ last.exc = NoExc
                  /\ last.out = "X"
                  /\ last.scopes[1].parent = interps["A"])
        /\ (last.prog = callDynK /\ IsFn("G") /\ IsFn("K"))
              => (/\ last.exc = NoExc
                  /\ last.out = "7"
                  /\ Len(last.scopes) = 2
                  /\ last.scopes[2].parent = Len(frames) + 1)
        /\ (last.prog = callDynH /\ IsFn("H"))
              => (/\ last.exc = NoExc
                  /\ last.out = "(Z A)"
                  /\ last.scopes[2].parent = Len(frames) + 1
                  /\ last.scopes[2].locals = ("A" :> IntV(5)) @@ ("Z" :> IntV(5)))
        /\ \A n \in {"X", "Z", "A"} : getValue(State, interps["A"], n) = PyNone)

\* g, defined where x was 1, has been called in a block that binds x to 2 and
\* has returned 2
C25_Witness ==
    /\ last.op = "eval"
    /\ last.prog = callDynBlock
    /\ last.out = "2"
    /\ Len(last.scopes) = 2
    /\ last.scopes[1].locals = ("X" :> IntV(2))

Definers == {"DEFUN!", "DEFUN!!", "DEFMACRO!!"}

\* C26: when defun!, defun!! or defmacro!! raises (too few arguments, a name
\* that is not a symbol, parameters that are not a list or not a list of
\* symbols), no frame has been changed by the call, the global frame included.
C26_DefinersAreAtomic ==
    (last.op \in Definers /\ last.exc # NoExc)
    => (/\ frames = TwoL.st.frames
        /\ GLOBAL_SCOPE = TwoL.st.GLOBAL_SCOPE)

\* defun!! has raised on the parameter list (1) after its checks of the
\* arguments passed
C26_Witness ==
    /\ last.op = "DEFUN!!"
    /\ last.exc.type = "AttributeError"
    /\ Len(operands) = 3
    /\ operands[1] = LSymbol("A")
    /\ operands[2] = OneL.val
    /\ frames = TwoL.st.frames

\* where the digits of the leader of text end: the first place after the sign
\* that holds no digit
LeaderEnd(text) ==
    CHOOSE j \in 1..(Len(text) + 1) :
        /\ j >= (IF text[1] \in SIGN THEN 2 ELSE 1)
        /\ \A i \in (IF text[1] \in SIGN THEN 2 ELSE 1)..(j - 1) : text[i] \in DIGIT
        /\ (j <= Len(text) => text[j] \notin DIGIT)

\* no digit stands at place i of text
NoDigitAt(text, i) == i > Len(text) \/ text[i] \notin DIGIT

\* text begins with a sign or a digit and its numeric scan fails: a sign not
\* followed by a digit, a / or a . not followed by a digit, or an exponent
\* marker not followed by digits
NumericScanFails(text) ==
    /\ text # << >>
    /\ text[1] \in SIGN_OR_DIGIT
    /\ \/ text[1] \in SIGN /\ NoDigitAt(text, 2)
       \/ /\ LeaderEnd(text) <= Len(text)
          /\ \/ text[LeaderEnd(text)] \in {"/", "."}
                   /\ NoDigitAt(text, LeaderEnd(text) + 1)
             \/ /\ text[LeaderEnd(text)] \in {"e", "E"}
                /\ NoDigitAt(text, LeaderEnd(text) + 1)
                /\ ~(/\ LeaderEnd(text) + 1 <= Len(text)
                     /\ text[LeaderEnd(text) + 1] \in SIGN
                     /\ ~NoDigitAt(text, LeaderEnd(text) + 2))

\* C27: when the numeric scan of a lexeme that begins with a sign or a digit
\* fails, the scanner gives one SYMBOL token whose lexeme begins where the
\* numeric scan began, for a digit-led lexeme as for a sign-led one.
C27_FailedNumberIsRescannedAsSymbol ==
    (ppc = "done" /\ NumericScanFails(src))
    => (/\ Scanner_reset(src).exc = "none"
        /\ peekToken(Scanner_reset(src).sc) = SYMBOL_TOK
        /\ Scanner_reset(src).sc.mark = 0
        /\ getLexeme(Scanner_reset(src).sc) # << >>)

\* the special forms the specification lists
SpecialForms ==
    {"DEF!", "DEF!!", "DEFUN!", "DEFUN!!", "DEFMACRO!!", "SET!", "UNDEF!", "LAM",
     "BLOCK", "IF", "COND", "CASE", "QUOTE", "BACKQUOTE", "COMMA", "COMMA-AT",
     "WHILE", "MAP"}

\* what (def! x 5), (set! x 6) and (def!! x 7) bind x to
UnquotedProgs ==
    (defUnquoted :> IntV(5)) @@ (setUnquoted :> IntV(6))
        @@ (defGlobalUnquoted :> IntV(7))

\* C28: the primitives the interpreter holds are marked stdEvalOrd = false
\* exactly when they are among the listed special forms; def!, def!! and set!
\* then receive the form x itself, so that (def! x 5) binds X whatever x was
\* bound to before.
C28_SpecialFormsGetUnevaluatedArguments ==
    /\ \A f \in DOMAIN frames : \A n \in DOMAIN frames[f].locals :
          frames[f].locals[n].k = "prim"
             => (stdEvalOrd(frames[f].locals[n])
                    = (frames[f].locals[n].name \notin SpecialForms))
    /\ (last.op = "eval" /\ last.prog \in DOMAIN UnquotedProgs)
          => (/\ last.exc = NoExc
              /\ getValue(State, interps["A"], "X") = UnquotedProgs[last.prog])

\* the forms whose condition, branch or body divides by zero, and the
\* primitive each is a call of
FailingForms ==
    (ifCondErr :> "IF") @@ (ifThenErr :> "IF") @@ (ifElseErr :> "IF")
        @@ (ifWhileErr :> "IF")
        @@ (whileCondErr :> "WHILE") @@ (whileBodyErr :> "WHILE")

\* C29: an error raised while the condition or a branch of if, or the
\* condition or the body of while, is evaluated reaches the driver as a
\* LypsRuntimeFuncError that names IF (respectively WHILE), not the primitive
\* that failed.
C29_IfAndWhileReplaceTheError ==
    (last.op = "eval" /\ last.prog \in DOMAIN FailingForms)
       => (/\ last.exc.type = "LypsRuntimeFuncError"
           /\ last.exc.name = FailingForms[last.prog]
           /\ last.exc.msg = (IF last.exc.name = "IF" THEN "Unknown error."
                              ELSE "Error evaluating condition for while loop."))

C29_Witness ==
    /\ last.op = "eval"
    /\ last.prog = whileBodyErr
    /\ last.exc.name = "WHILE"

\* the list literal in the stored body of the function bound to name, when
\* the body is the one form (push! (quote L) v)
QuotedLiteral(name) ==
    LET fn == heap[getValue(State, interps["A"], name).id]
        form == _list(State, fn.body.elts[1])
    IN  _list(State, form[2])[2]

\* C30: quote gives the list object of the program text itself: a call of f,
\* whose body applies push! to a quoted list, returns the literal of the
\* stored body, and a second call right after the first returns the same
\* object with one more element at the end.
C30_QuoteReturnsTheStoredLiteral ==
    [][(/\ workload = "lit"
        /\ last.op = "eval" /\ last.prog = callLitF /\ last.exc = NoExc
        /\ IsFn("F")
        /\ last'.op = "eval" /\ last'.prog = callLitF)
       => (/\ last'.exc = NoExc
           /\ last.val = QuotedLiteral("F")
           /\ last'.val = last.val
           /\ heap'[last'.val.id].list = Append(heap[last.val.id].list, IntV(2)))]_vars

C30_Witness ==
    /\ last.op = "eval"
    /\ last.prog = callLitF
    /\ last.out = "(1 2 2)"
    /\ heap[QuotedLiteral("F").id].list = <<IntV(1), IntV(2), IntV(2)>>

=============================================================================
